---- MODULE Spec2Model ----
(***************************************************************************)
(* The trading coordinator of go-trader (package algorithm, type           *)
(* TradingAlgorithm) as a state machine: its shared state behind the       *)
(* sync.RWMutex mu, and one action per lock acquisition, critical section  *)
(* and unlocked statement of each public operation, run by concurrent      *)
(* goroutines (Threads); the order executor (executeBuyOrder,              *)
(* executeSellOrder); and the functions of package algo, each applied in   *)
(* one step to arguments of bounded sets: the ensemble combiner            *)
(* (combineResults), MVOAlgorithm.Process, the fold builders (PurgedKFold, *)
(* WalkForwardValidation), ApplyTripleBarrier, the registered algorithms   *)
(* (sequential bootstrap, meta-labeling, position sizing, CUSUM filter,    *)
(* HRP, MVO, Entropy Pooling) with their Configure and Process, and the    *)
(* AlgorithmManager that holds them.  Prices, quantities and               *)
(* money are integers (whole currency units; the prices of the order       *)
(* executor in thousandths), confidences and volatilities are fractions,   *)
(* and arithmetic on them is exact, so float64 rounding error is not       *)
(* modelled.                                                               *)
(* Fields that no modelled operation reads or computes (High24h, Low24h,   *)
(* Volume24h, Timestamp, Confidence, AvgPrice, MarketVal, Profit, Return,  *)
(* DailyReturn) are left out of the records.                               *)
(***************************************************************************)
EXTENDS Integers, Sequences, FiniteSets, TLC

\* ------------------------------------------------------------------ bounds
NumThreads == 2
MaxCalls == 3

Threads == 1..NumThreads
Symbols == {"A", "B"}

\* ------------------------------------------------------------------ maps
\* A Go map is a function whose domain is the set of keys present.
EmptyMap == << >>
MapPut(m, k, v) == [x \in (DOMAIN m) \cup {k} |-> IF x = k THEN v ELSE m[x]]
Has(m, k) == k \in DOMAIN m

\* ------------------------------------------------------------------ values
SignalNone == "none"
SignalBuy == "buy"
SignalSell == "sell"
SignalHold == "hold"
SignalClose == "close"

\* *TradeSignal; NilSignal is the nil pointer.  hasLimit = FALSE is a nil
\* LimitPrice.
TradeSignal(sym, sig, otype, hasLimit, limit, reasoning) ==
  [Symbol |-> sym, Signal |-> sig, OrderType |-> otype, hasLimit |-> hasLimit,
   LimitPrice |-> limit, Reasoning |-> reasoning]
NilSignal == TradeSignal("", "<nil>", "", FALSE, 0, "")

\* Change24h is a whole percentage.
MarketData(sym, price, change) ==
  [Symbol |-> sym, Price |-> price, Change24h |-> change]
ZeroMarketData == MarketData("", 0, 0)

PositionData(sym, qty) == [Symbol |-> sym, Quantity |-> qty]

PortfolioData(balance, positions, total, pnl) ==
  [Balance |-> balance, Positions |-> positions, TotalValue |-> total,
   DailyPnL |-> pnl]
ZeroPortfolio == PortfolioData(0, EmptyMap, 0, 0)

\* A risk-parameter value: a Go interface{} holding a float64, an int or
\* something else (a string).  The number is num/den, den > 0.
RV(type, num, den) == [type |-> type, num |-> num, den |-> den]
DefaultRiskParameters ==
  [max_position_size_percent |-> RV("float64", 5, 1),
   max_daily_drawdown |-> RV("float64", 10, 1),
   stop_loss_percent |-> RV("float64", 5, 1),
   take_profit_percent |-> RV("float64", 15, 1),
   max_trades_per_day |-> RV("int", 10, 1)]

\* ------------------------------------------------------------------ state
VARIABLES
  marketData,      \* a.marketData: map[string]MarketData
  signals,         \* a.signals: map[string]*TradeSignal
  portfolio,       \* a.portfolio
  riskParameters,  \* a.riskParameters
  tradingEnabled,  \* a.tradingEnabled
  claudeSet,       \* a.claude != nil (fixed at construction)
  algorithms,      \* am.algorithms: the registered instances and their fields
  configs,         \* am.configs: the configuration recorded per algorithm
  mu,              \* a.mu: [w: the writer holding it or 0, r: the readers]
  loc,             \* per goroutine: the running call, its position, its locals
  ret,             \* what the step just taken returned, and to which goroutine (NoRet: nothing)
  acc,             \* history: the accesses of the step just taken made without the lock they need
  blocked,         \* history: a Stop has returned and no Start begun after it has succeeded
  lastStore,       \* history: per symbol, the signal of the last store since the last reset
  stamp,           \* history: per watched symbol, the writes of its market data and those the stored signal saw
  calls            \* the calls the callers may still begin

vars == <<marketData, signals, portfolio, riskParameters, tradingEnabled,
          claudeSet, algorithms, configs, mu, loc, ret, acc, blocked, lastStore, stamp, calls>>

\* ------------------------------------------------------------------ goroutines
\* The locals of a call.  stale and mustRefuse are history fields: a Start
\* that was in flight when a Stop returned, and a ProcessSymbol that began
\* while blocked.
\* The stamp counts, for the symbols it watches (the domain of its two
\* functions), the writes of the symbol's market data, and notes how many
\* had been made when the snapshot behind the stored signal was read.
\* NoStamp watches no symbol; NewStamp watches all, nothing written yet.
NoStamp == [written |-> << >>, stored |-> << >>]
NewStamp == [written |-> [s \in Symbols |-> 0], stored |-> [s \in Symbols |-> 0]]
Watched(st) == DOMAIN st.written
\* The stamp after one more write of the market data of each of the symbols.
Written(st, symbols) ==
  [st EXCEPT !.written = [s \in Watched(st) |->
                            IF s \in symbols THEN st.written[s] + 1
                            ELSE st.written[s]]]
\* The writes of the symbol's market data made so far.
Writes(st, symbol) == IF symbol \in Watched(st) THEN st.written[symbol] ELSE 0
\* The stamp once a signal computed from the snapshot read after `seen`
\* writes is stored for the symbol.
Stored(st, symbol, seen) ==
  IF symbol \in Watched(st) THEN [st EXCEPT !.stored[symbol] = seen] ELSE st
\* What a Start call found when it began, kept to compare with what it leaves
\* (see Session).
NoBefore == [marketData |-> << >>, signals |-> << >>, tradingEnabled |-> FALSE]
NoOrder == [issued |-> FALSE, symbol |-> "", side |-> "", qty |-> 0,
            type |-> "", limitPrice |-> 0]
IdleFrame ==
  [op |-> "", pc |-> "idle", sym |-> "", syms |-> << >>, i |-> 0,
   md |-> ZeroMarketData, pf |-> ZeroPortfolio, sig |-> NilSignal,
   acct |-> [Cash |-> 0, Equity |-> 0, LastEquity |-> 0],
   pos |-> << >>, params |-> EmptyMap, sigs |-> EmptyMap, symbols |-> {},
   running |-> FALSE, stale |-> FALSE, mustRefuse |-> FALSE,
   order |-> NoOrder, before |-> NoBefore, seen |-> 0]

Ret(op, err) == [t |-> 0, op |-> op, err |-> err, sig |-> NilSignal,
                 sigs |-> EmptyMap, order |-> NoOrder, sym |-> "",
                 md |-> ZeroMarketData, pf |-> ZeroPortfolio, rp |-> EmptyMap,
                 running |-> FALSE, symbols |-> {}, params |-> EmptyMap,
                 args |-> << >>, out |-> << >>, before |-> NoBefore]
NoRet == Ret("", "")

Idle(t) == loc[t].pc = "idle"
At(t, op, pc) == loc[t].op = op /\ loc[t].pc = pc
\* Goroutines are anonymous: of the idle ones, the lowest-numbered takes the
\* next call.
CanBegin(t) ==
  /\ Idle(t) /\ calls > 0
  /\ \A u \in Threads : u < t => ~Idle(u)
\* The goroutines that can begin a call.
Callers == {t \in Threads : CanBegin(t)}

\* sync.RWMutex
Unlocked == [w |-> 0, r |-> {}]
CanLock == mu.w = 0 /\ mu.r = {}
CanRLock == mu.w = 0
Lock(t) == [mu EXCEPT !.w = t]
Unlock(t) == [mu EXCEPT !.w = 0]
RLock(t) == [mu EXCEPT !.r = @ \cup {t}]
RUnlock(t) == [mu EXCEPT !.r = @ \ {t}]
\* The lock goroutine t holds: "W", "R" or "none".
Held(t) == IF mu.w = t THEN "W" ELSE IF t \in mu.r THEN "R" ELSE "none"
\* The reader/writer discipline: a write needs the write lock, a read either.
Synchronized(t, kind) == Held(t) = "W" \/ (kind = "r" /\ Held(t) = "R")
\* An access of goroutine t to a field of the coordinator, kept when it is
\* made without the lock it needs.
Access(t, var, kind) ==
  IF Synchronized(t, kind) THEN {}
  ELSE {[var |-> var, kind |-> kind, held |-> Held(t)]}

\* ------------------------------------------------------------------ broker
\* What GetAccount and GetPositions may answer when they do not fail.
AccountResults == {[Cash |-> 4000, Equity |-> 10000, LastEquity |-> 9000]}
PositionsResults == {<< >>, <<PositionData("A", 10)>>}

\* ------------------------------------------------------------------ construction
\* NewTradingAlgorithm, with or without an AI provider.
Init ==
  /\ marketData = EmptyMap
  /\ signals = EmptyMap
  /\ portfolio = ZeroPortfolio
  /\ riskParameters = DefaultRiskParameters
  /\ tradingEnabled = FALSE
  /\ claudeSet \in BOOLEAN
  /\ algorithms = << >>
  /\ configs = << >>
  /\ mu = Unlocked
  /\ loc = [t \in Threads |-> IdleFrame]
  /\ ret = NoRet
  /\ acc = {}
  /\ blocked = FALSE
  /\ lastStore = EmptyMap
  /\ stamp = NoStamp
  /\ calls = MaxCalls

\* ------------------------------------------------------------------ Start
\* The session as a call finds it: the entries of the watched symbols and,
\* when any is watched, whether trading is enabled.
Only(m, keys) == [k \in DOMAIN m \cap keys |-> m[k]]
Session ==
  [marketData |-> Only(marketData, Watched(stamp)),
   signals |-> Only(signals, Watched(stamp)),
   tradingEnabled |-> tradingEnabled /\ Watched(stamp) # {}]

\* a.mu.Lock() of Start(symbols)
StartLock(t, symbols) ==
  /\ CanBegin(t) /\ CanLock
  /\ mu' = Lock(t)
  /\ loc' = [loc EXCEPT ![t] = [IdleFrame EXCEPT !.op = "Start", !.pc = "reset",
                                                !.syms = symbols, !.i = 1,
                                                !.before = Session]]
  /\ calls' = calls - 1
  /\ acc' = {}
  /\ ret' = NoRet
  /\ UNCHANGED <<marketData, signals, portfolio, riskParameters,
                 tradingEnabled, claudeSet, algorithms, configs, lastStore, stamp, blocked>>

\* the maps are replaced by empty ones; a.mu.Unlock()
StartReset(t) ==
  /\ At(t, "Start", "reset")
  /\ marketData' = EmptyMap
  /\ signals' = EmptyMap
  /\ lastStore' = EmptyMap
  /\ acc' = Access(t, "marketData", "w") \cup Access(t, "signals", "w")
  /\ mu' = Unlock(t)
  /\ loc' = [loc EXCEPT ![t].pc = IF loc[t].syms = << >> THEN "account" ELSE "seed"]
  /\ ret' = NoRet
  /\ UNCHANGED <<portfolio, riskParameters, tradingEnabled, claudeSet, algorithms, configs,
                 stamp, blocked, calls>>

\* one iteration of the seeding loop: a.marketData[symbol] = MarketData{Symbol: symbol}
StartSeed(t) ==
  /\ At(t, "Start", "seed")
  /\ LET symbol == loc[t].syms[loc[t].i] IN
       /\ marketData' = MapPut(marketData, symbol, MarketData(symbol, 0, 0))
       /\ stamp' = Written(stamp, {symbol})
  /\ acc' = Access(t, "marketData", "w")
  /\ loc' = [loc EXCEPT ![t].i = @ + 1,
                        ![t].pc = IF loc[t].i = Len(loc[t].syms)
                                  THEN "account" ELSE "seed"]
  /\ ret' = NoRet
  /\ UNCHANGED <<signals, portfolio, riskParameters, tradingEnabled,
                 claudeSet, algorithms, configs, lastStore, mu, blocked, calls>>
\* A call returns: its frame is dropped and its result recorded.
Return(t, r) ==
  /\ loc' = [loc EXCEPT ![t] = IdleFrame]
  /\ ret' = [r EXCEPT !.t = t]

ErrPortfolio == "failed to update portfolio"
ErrNotEnabled == "trading algorithm is not enabled"
ErrNoMarketData == "market data not found for symbol"
ErrGenerate == "failed to generate trading signal"

\* A refresh that would store the account figures as soon as it has them,
\* before asking for the positions.
StartGetAccountEager(t) ==
  /\ At(t, "Start", "account")
  /\ \/ /\ Return(t, [Ret("Start", ErrPortfolio) EXCEPT !.before = loc[t].before])
        /\ UNCHANGED portfolio
     \/ \E a \in AccountResults :
          /\ loc' = [loc EXCEPT ![t].acct = a, ![t].pc = "positions"]
          /\ portfolio' = [portfolio EXCEPT !.Balance = a.Cash,
                                            !.TotalValue = a.Equity]
          /\ ret' = NoRet
  /\ acc' = {}
  /\ UNCHANGED <<marketData, signals, riskParameters,
                 tradingEnabled, claudeSet, algorithms, configs, lastStore, stamp, mu, blocked, calls>>

\* updatePortfolio: account, err := a.client.GetAccount()
StartGetAccount(t) ==
  /\ At(t, "Start", "account")
  /\ \/ Return(t, [Ret("Start", ErrPortfolio) EXCEPT !.before = loc[t].before])
     \/ \E a \in AccountResults :
          /\ loc' = [loc EXCEPT ![t].acct = a, ![t].pc = "positions"]
          /\ ret' = NoRet
  /\ acc' = {}
  /\ UNCHANGED <<marketData, signals, portfolio, riskParameters,
                 tradingEnabled, claudeSet, algorithms, configs, lastStore, stamp, mu, blocked, calls>>

\* updatePortfolio: positions, err := a.client.GetPositions()
StartGetPositions(t) ==
  /\ At(t, "Start", "positions")
  /\ \/ Return(t, [Ret("Start", ErrPortfolio) EXCEPT !.before = loc[t].before])
     \/ \E ps \in PositionsResults :
          /\ loc' = [loc EXCEPT ![t].pos = ps, ![t].pc = "pf_lock"]
          /\ ret' = NoRet
  /\ acc' = {}
  /\ UNCHANGED <<marketData, signals, portfolio, riskParameters,
                 tradingEnabled, claudeSet, algorithms, configs, lastStore, stamp, mu, blocked, calls>>

\* updatePortfolio: a.mu.Lock()
StartPfLock(t) ==
  /\ At(t, "Start", "pf_lock") /\ CanLock
  /\ mu' = Lock(t)
  /\ loc' = [loc EXCEPT ![t].pc = "pf_write"]
  /\ acc' = {}
  /\ ret' = NoRet
  /\ UNCHANGED <<marketData, signals, portfolio, riskParameters,
                 tradingEnabled, claudeSet, algorithms, configs, lastStore, stamp, blocked, calls>>

\* The positions map built by the loop over the broker's positions (a later
\* entry for a symbol replaces an earlier one).
RECURSIVE PositionsMap(_)
PositionsMap(ps) ==
  IF ps = << >> THEN EmptyMap
  ELSE LET last == ps[Len(ps)] IN
       MapPut(PositionsMap(SubSeq(ps, 1, Len(ps) - 1)), last.Symbol, last)

\* The snapshot updatePortfolio stores.
NewPortfolio(account, positions) ==
  PortfolioData(account.Cash, PositionsMap(positions), account.Equity,
                account.Equity - account.LastEquity)

\* updatePortfolio: a.portfolio = PortfolioData{...}, the positions loop, and
\* the deferred a.mu.Unlock()
StartPfWrite(t) ==
  /\ At(t, "Start", "pf_write")
  /\ portfolio' = NewPortfolio(loc[t].acct, loc[t].pos)
  /\ acc' = Access(t, "portfolio", "w")
  /\ mu' = Unlock(t)
  /\ loc' = [loc EXCEPT ![t].pc = "enable"]
  /\ ret' = NoRet
  /\ UNCHANGED <<marketData, signals, riskParameters, tradingEnabled,
                 claudeSet, algorithms, configs, lastStore, stamp, blocked, calls>>

\* a.tradingEnabled = true; return nil.  A Start that was not in flight when
\* the last Stop returned lifts the block.  Every ExecuteTrade in flight has
\* from now on overlapped a moment at which trading was enabled.
StartEnable(t) ==
  /\ At(t, "Start", "enable")
  /\ tradingEnabled' = TRUE
  /\ acc' = Access(t, "tradingEnabled", "w")
  /\ blocked' = IF loc[t].stale THEN blocked ELSE FALSE
  /\ loc' = [u \in Threads |->
               IF u = t THEN IdleFrame
               ELSE IF loc[u].op = "ExecuteTrade"
               THEN [loc[u] EXCEPT !.mustRefuse = FALSE]
               ELSE loc[u]]
  /\ ret' = [Ret("Start", "") EXCEPT !.t = t]
  /\ UNCHANGED <<marketData, signals, portfolio, riskParameters, claudeSet, algorithms, configs, lastStore, stamp,
                 mu, calls>>

\* ------------------------------------------------------------------ Stop
\* a.mu.Lock() of Stop()
StopLock(t) ==
  /\ CanBegin(t) /\ CanLock
  /\ mu' = Lock(t)
  /\ loc' = [loc EXCEPT ![t] = [IdleFrame EXCEPT !.op = "Stop", !.pc = "disable"]]
  /\ calls' = calls - 1
  /\ acc' = {}
  /\ ret' = NoRet
  /\ UNCHANGED <<marketData, signals, portfolio, riskParameters,
                 tradingEnabled, claudeSet, algorithms, configs, lastStore, stamp, blocked>>

\* wasEnabled := a.tradingEnabled; a.tradingEnabled = false; a.mu.Unlock();
\* return nil on both branches.  Every Start in flight now began before this
\* Stop returned.
StopDisable(t) ==
  /\ At(t, "Stop", "disable")
  /\ tradingEnabled' = FALSE
  /\ acc' = Access(t, "tradingEnabled", "r") \cup Access(t, "tradingEnabled", "w")
  /\ mu' = Unlock(t)
  /\ blocked' = TRUE
  /\ loc' = [u \in Threads |->
               IF u = t THEN IdleFrame
               ELSE IF loc[u].op = "Start" THEN [loc[u] EXCEPT !.stale = TRUE]
               ELSE loc[u]]
  /\ ret' = [Ret("Stop", "") EXCEPT !.t = t]
  /\ UNCHANGED <<marketData, signals, portfolio, riskParameters, claudeSet, algorithms, configs, lastStore, stamp,
                 calls>>
\* ------------------------------------------------------------------ UpdateMarketData
\* a.mu.Lock() of UpdateMarketData(symbol, price, ..., change24h)
UpdateMarketDataLock(t, symbol, price, change24h) ==
  /\ CanBegin(t) /\ CanLock
  /\ mu' = Lock(t)
  /\ loc' = [loc EXCEPT ![t] = [IdleFrame EXCEPT !.op = "UpdateMarketData",
                                  !.pc = "update", !.sym = symbol,
                                  !.md = MarketData(symbol, price, change24h)]]
  /\ calls' = calls - 1
  /\ acc' = {}
  /\ ret' = NoRet
  /\ UNCHANGED <<marketData, signals, portfolio, riskParameters,
                 tradingEnabled, claudeSet, algorithms, configs, lastStore, stamp, blocked>>

\* change24h = (price - currentData.Price) / currentData.Price * 100 when it
\* is not provided and a prior positive price exists (exact in whole
\* percents for the prices drawn here).
DerivedChange(m, symbol, price, change24h) ==
  IF Has(m, symbol) /\ change24h = 0 /\ m[symbol].Price > 0
  THEN ((price - m[symbol].Price) * 100) \div m[symbol].Price
  ELSE change24h

\* the snapshot is replaced; the deferred a.mu.Unlock()
UpdateMarketDataWrite(t) ==
  /\ At(t, "UpdateMarketData", "update")
  /\ LET a == loc[t].md IN
       /\ marketData' = MapPut(marketData, a.Symbol,
                               MarketData(a.Symbol, a.Price,
                                 DerivedChange(marketData, a.Symbol, a.Price, a.Change24h)))
       /\ stamp' = Written(stamp, {a.Symbol})
  /\ acc' = Access(t, "marketData", "r") \cup Access(t, "marketData", "w")
  /\ mu' = Unlock(t)
  /\ Return(t, Ret("UpdateMarketData", ""))
  /\ UNCHANGED <<signals, portfolio, riskParameters, tradingEnabled,
                 claudeSet, algorithms, configs, lastStore, blocked, calls>>

\* ------------------------------------------------------------------ ProcessSymbol
\* The default signal synthesized when no AI provider is configured.
SkippedSignal(symbol) ==
  TradeSignal(symbol, SignalHold, "market", FALSE, 0,
              "Signal generation skipped: Claude AI service not available.")

\* What a.claude.GenerateTradeSignal may return without error: the provider
\* adapters copy Symbol, Signal, OrderType and LimitPrice from the remote
\* service's reply.
ProviderSignals ==
  {TradeSignal(s, SignalBuy, "limit", TRUE, 99, "ai") : s \in Symbols} \cup
  {TradeSignal(s, SignalSell, "market", FALSE, 0, "ai") : s \in Symbols}

\* if !a.tradingEnabled { return error }; if a.claude == nil { synthesize }
ProcessSymbolGate(t, symbol) ==
  /\ CanBegin(t)
  /\ calls' = calls - 1
  /\ acc' = Access(t, "tradingEnabled", "r")
  /\ IF ~tradingEnabled
     THEN Return(t, [Ret("ProcessSymbol", ErrNotEnabled) EXCEPT !.sym = symbol])
     ELSE /\ loc' = [loc EXCEPT ![t] =
                       [IdleFrame EXCEPT !.op = "ProcessSymbol", !.sym = symbol,
                          !.mustRefuse = blocked,
                          !.pc = IF claudeSet THEN "rlock" ELSE "nil_lock",
                          !.sig = IF claudeSet THEN NilSignal
                                  ELSE SkippedSignal(symbol)]]
          /\ ret' = NoRet
  /\ UNCHANGED <<marketData, signals, portfolio, riskParameters,
                 tradingEnabled, claudeSet, algorithms, configs, lastStore, stamp, mu, blocked>>

\* a.mu.Lock() before either store
ProcessSymbolStoreLock(t) ==
  /\ loc[t].op = "ProcessSymbol" /\ loc[t].pc \in {"nil_lock", "store_lock"}
  /\ CanLock
  /\ mu' = Lock(t)
  /\ loc' = [loc EXCEPT ![t].pc = "store"]
  /\ acc' = {}
  /\ ret' = NoRet
  /\ UNCHANGED <<marketData, signals, portfolio, riskParameters,
                 tradingEnabled, claudeSet, algorithms, configs, lastStore, stamp, blocked, calls>>

\* A store that would update an existing entry in place, field by field,
\* instead of replacing the pointer: the entry keeps its old order fields.
StoreSignalInPlace(m, symbol, signal) ==
  IF Has(m, symbol)
  THEN [m EXCEPT ![symbol].Signal = signal.Signal,
                 ![symbol].Reasoning = signal.Reasoning]
  ELSE MapPut(m, symbol, signal)

\* a.signals[symbol] = signal: the map entry is a pointer, replaced whole.
StoreSignal(m, symbol, signal) == MapPut(m, symbol, signal)

\* a.signals[symbol] = signal; a.mu.Unlock(); the callback; return nil
ProcessSymbolStore(t) ==
  /\ At(t, "ProcessSymbol", "store")
  /\ signals' = StoreSignal(signals, loc[t].sym, loc[t].sig)
  /\ lastStore' = MapPut(lastStore, loc[t].sym, loc[t].sig)
  /\ stamp' = Stored(stamp, loc[t].sym, loc[t].seen)
  /\ acc' = Access(t, "signals", "w")
  /\ mu' = Unlock(t)
  /\ Return(t, [Ret("ProcessSymbol", "") EXCEPT !.sym = loc[t].sym,
                                                 !.sig = loc[t].sig])
  /\ UNCHANGED <<marketData, portfolio, riskParameters, tradingEnabled,
                 claudeSet, algorithms, configs, blocked, calls>>

\* a.mu.RLock() of the provider path
ProcessSymbolRLock(t) ==
  /\ At(t, "ProcessSymbol", "rlock") /\ CanRLock
  /\ mu' = RLock(t)
  /\ loc' = [loc EXCEPT ![t].pc = "read"]
  /\ acc' = {}
  /\ ret' = NoRet
  /\ UNCHANGED <<marketData, signals, portfolio, riskParameters,
                 tradingEnabled, claudeSet, algorithms, configs, lastStore, stamp, blocked, calls>>

\* A read that would ignore `exists` and go on with the zero MarketData.
ProcessSymbolReadUnchecked(t) ==
  /\ At(t, "ProcessSymbol", "read")
  /\ mu' = RUnlock(t)
  /\ acc' = Access(t, "marketData", "r") \cup Access(t, "portfolio", "r")
  /\ loc' = [loc EXCEPT ![t].md = IF Has(marketData, loc[t].sym)
                                  THEN marketData[loc[t].sym]
                                  ELSE ZeroMarketData,
                        ![t].seen = Writes(stamp, loc[t].sym),
                        ![t].pf = portfolio, ![t].pc = "generate"]
  /\ ret' = NoRet
  /\ UNCHANGED <<marketData, signals, portfolio, riskParameters,
                 tradingEnabled, claudeSet, algorithms, configs, lastStore, stamp, blocked, calls>>

\* marketData, exists := a.marketData[symbol]; portfolio := a.portfolio;
\* a.mu.RUnlock()
ProcessSymbolRead(t) ==
  /\ At(t, "ProcessSymbol", "read")
  /\ mu' = RUnlock(t)
  /\ IF ~Has(marketData, loc[t].sym)
     THEN /\ acc' = Access(t, "marketData", "r")
          /\ Return(t, [Ret("ProcessSymbol", ErrNoMarketData) EXCEPT !.sym = loc[t].sym])
     ELSE /\ acc' = Access(t, "marketData", "r") \cup Access(t, "portfolio", "r")
          /\ loc' = [loc EXCEPT ![t].md = marketData[loc[t].sym],
                                ![t].seen = Writes(stamp, loc[t].sym),
                                ![t].pf = portfolio, ![t].pc = "generate"]
          /\ ret' = NoRet
  /\ UNCHANGED <<marketData, signals, portfolio, riskParameters,
                 tradingEnabled, claudeSet, algorithms, configs, lastStore, stamp, blocked, calls>>

\* signal, err := a.claude.GenerateTradeSignal(symbol, marketData, portfolio)
ProcessSymbolGenerate(t) ==
  /\ At(t, "ProcessSymbol", "generate")
  /\ \/ Return(t, [Ret("ProcessSymbol", ErrGenerate) EXCEPT !.sym = loc[t].sym])
     \/ \E sg \in ProviderSignals :
          /\ loc' = [loc EXCEPT ![t].sig = sg, ![t].pc = "store_lock"]
          /\ ret' = NoRet
  /\ acc' = {}
  /\ UNCHANGED <<marketData, signals, portfolio, riskParameters,
                 tradingEnabled, claudeSet, algorithms, configs, lastStore, stamp, mu, blocked, calls>>
\* ------------------------------------------------------------------ readers
\* a.mu.RLock() of GetSignal(symbol)
GetSignalRLock(t, symbol) ==
  /\ CanBegin(t) /\ CanRLock
  /\ mu' = RLock(t)
  /\ loc' = [loc EXCEPT ![t] = [IdleFrame EXCEPT !.op = "GetSignal",
                                  !.pc = "read", !.sym = symbol]]
  /\ calls' = calls - 1
  /\ acc' = {}
  /\ ret' = NoRet
  /\ UNCHANGED <<marketData, signals, portfolio, riskParameters,
                 tradingEnabled, claudeSet, algorithms, configs, lastStore, stamp, blocked>>

\* The pointer a map read yields: nil for a missing key.
Lookup(m, symbol) == IF Has(m, symbol) THEN m[symbol] ELSE NilSignal

\* return a.signals[symbol]; the deferred a.mu.RUnlock()
GetSignalRead(t) ==
  /\ At(t, "GetSignal", "read")
  /\ acc' = Access(t, "signals", "r")
  /\ mu' = RUnlock(t)
  /\ Return(t, [Ret("GetSignal", "") EXCEPT !.sym = loc[t].sym,
                                             !.sig = Lookup(signals, loc[t].sym)])
  /\ UNCHANGED <<marketData, signals, portfolio, riskParameters,
                 tradingEnabled, claudeSet, algorithms, configs, lastStore, stamp, blocked, calls>>

\* a.mu.RLock() of GetAllSignals()
GetAllSignalsRLock(t) ==
  /\ CanBegin(t) /\ CanRLock
  /\ mu' = RLock(t)
  /\ loc' = [loc EXCEPT ![t] = [IdleFrame EXCEPT !.op = "GetAllSignals",
                                  !.pc = "read"]]
  /\ calls' = calls - 1
  /\ acc' = {}
  /\ ret' = NoRet
  /\ UNCHANGED <<marketData, signals, portfolio, riskParameters,
                 tradingEnabled, claudeSet, algorithms, configs, lastStore, stamp, blocked>>

\* The copy loop of GetAllSignals: the same pointers under the same keys.
CopySignals(m) == [k \in DOMAIN m |-> m[k]]

\* the copy; the deferred a.mu.RUnlock()
GetAllSignalsRead(t) ==
  /\ At(t, "GetAllSignals", "read")
  /\ acc' = Access(t, "signals", "r")
  /\ mu' = RUnlock(t)
  /\ Return(t, [Ret("GetAllSignals", "") EXCEPT !.sigs = CopySignals(signals)])
  /\ UNCHANGED <<marketData, signals, portfolio, riskParameters,
                 tradingEnabled, claudeSet, algorithms, configs, lastStore, stamp, blocked, calls>>

\* a.mu.RLock() of GetMarketData, GetPortfolio or GetRiskParameters
GetterRLock(t, op, symbol) ==
  /\ CanBegin(t) /\ CanRLock
  /\ mu' = RLock(t)
  /\ loc' = [loc EXCEPT ![t] = [IdleFrame EXCEPT !.op = op, !.pc = "read",
                                                !.sym = symbol]]
  /\ calls' = calls - 1
  /\ acc' = {}
  /\ ret' = NoRet
  /\ UNCHANGED <<marketData, signals, portfolio, riskParameters,
                 tradingEnabled, claudeSet, algorithms, configs, lastStore, stamp, blocked>>

\* return a.marketData[symbol] (the zero value for a missing key); the
\* deferred a.mu.RUnlock()
GetMarketDataRead(t) ==
  /\ At(t, "GetMarketData", "read")
  /\ acc' = Access(t, "marketData", "r")
  /\ mu' = RUnlock(t)
  /\ Return(t, [Ret("GetMarketData", "") EXCEPT
                  !.md = IF Has(marketData, loc[t].sym)
                         THEN marketData[loc[t].sym] ELSE ZeroMarketData])
  /\ UNCHANGED <<marketData, signals, portfolio, riskParameters,
                 tradingEnabled, claudeSet, algorithms, configs, lastStore, stamp, blocked, calls>>

\* return a.portfolio; the deferred a.mu.RUnlock()
GetPortfolioRead(t) ==
  /\ At(t, "GetPortfolio", "read")
  /\ acc' = Access(t, "portfolio", "r")
  /\ mu' = RUnlock(t)
  /\ Return(t, [Ret("GetPortfolio", "") EXCEPT !.pf = portfolio])
  /\ UNCHANGED <<marketData, signals, portfolio, riskParameters,
                 tradingEnabled, claudeSet, algorithms, configs, lastStore, stamp, blocked, calls>>

\* The copy loop of GetRiskParameters.
CopyParams(m) == [k \in DOMAIN m |-> m[k]]

\* the copy; the deferred a.mu.RUnlock()
GetRiskParametersRead(t) ==
  /\ At(t, "GetRiskParameters", "read")
  /\ acc' = Access(t, "riskParameters", "r")
  /\ mu' = RUnlock(t)
  /\ Return(t, [Ret("GetRiskParameters", "") EXCEPT !.rp = CopyParams(riskParameters)])
  /\ UNCHANGED <<marketData, signals, portfolio, riskParameters,
                 tradingEnabled, claudeSet, algorithms, configs, lastStore, stamp, blocked, calls>>

\* ------------------------------------------------------------------ UpdateStatus
ErrNoSymbols == "no symbols provided"

\* if len(symbols) == 0 { return error }; a.mu.Lock()
UpdateStatusLock(t, symbols) ==
  /\ CanBegin(t)
  /\ calls' = calls - 1
  /\ acc' = {}
  /\ IF symbols = << >>
     THEN /\ Return(t, Ret("UpdateStatus", ErrNoSymbols))
          /\ UNCHANGED mu
     ELSE /\ CanLock
          /\ mu' = Lock(t)
          /\ loc' = [loc EXCEPT ![t] = [IdleFrame EXCEPT !.op = "UpdateStatus",
                                          !.pc = "add", !.syms = symbols]]
          /\ ret' = NoRet
  /\ UNCHANGED <<marketData, signals, portfolio, riskParameters,
                 tradingEnabled, claudeSet, algorithms, configs, lastStore, stamp, blocked>>

\* The loop of UpdateStatus: a symbol not yet in the map gets an empty
\* MarketData, a known one keeps its snapshot.
RECURSIVE AddSymbols(_, _)
AddSymbols(m, symbols) ==
  IF symbols = << >> THEN m
  ELSE LET symbol == Head(symbols)
           m1 == IF Has(m, symbol) THEN m
                 ELSE MapPut(m, symbol, MarketData(symbol, 0, 0))
       IN AddSymbols(m1, Tail(symbols))

\* the loop; a.mu.Unlock(); return nil
UpdateStatusAdd(t) ==
  /\ At(t, "UpdateStatus", "add")
  /\ marketData' = AddSymbols(marketData, loc[t].syms)
  /\ stamp' = Written(stamp, {loc[t].syms[i] : i \in DOMAIN loc[t].syms} \ DOMAIN marketData)
  /\ acc' = Access(t, "marketData", "r") \cup Access(t, "marketData", "w")
  /\ mu' = Unlock(t)
  /\ Return(t, Ret("UpdateStatus", ""))
  /\ UNCHANGED <<signals, portfolio, riskParameters, tradingEnabled,
                 claudeSet, algorithms, configs, lastStore, blocked, calls>>

\* ------------------------------------------------------------------ GetStatus
\* signals := a.GetAllSignals(): its a.mu.RLock()
GetStatusSignalsRLock(t) ==
  /\ CanBegin(t) /\ CanRLock
  /\ mu' = RLock(t)
  /\ loc' = [loc EXCEPT ![t] = [IdleFrame EXCEPT !.op = "GetStatus",
                                                !.pc = "signals"]]
  /\ calls' = calls - 1
  /\ acc' = {}
  /\ ret' = NoRet
  /\ UNCHANGED <<marketData, signals, portfolio, riskParameters,
                 tradingEnabled, claudeSet, algorithms, configs, lastStore, stamp, blocked>>

\* GetAllSignals' copy and a.mu.RUnlock()
GetStatusSignals(t) ==
  /\ At(t, "GetStatus", "signals")
  /\ acc' = Access(t, "signals", "r")
  /\ mu' = RUnlock(t)
  /\ loc' = [loc EXCEPT ![t].sigs = CopySignals(signals), ![t].pc = "symbols_rlock"]
  /\ ret' = NoRet
  /\ UNCHANGED <<marketData, signals, portfolio, riskParameters,
                 tradingEnabled, claudeSet, algorithms, configs, lastStore, stamp, blocked, calls>>

\* a.mu.RLock() before the symbols are listed, and the one of
\* a.GetRiskParameters()
GetStatusRLock(t) ==
  /\ loc[t].op = "GetStatus" /\ loc[t].pc \in {"symbols_rlock", "risk_rlock"}
  /\ CanRLock
  /\ mu' = RLock(t)
  /\ loc' = [loc EXCEPT ![t].pc = IF loc[t].pc = "symbols_rlock"
                                  THEN "symbols" ELSE "risk"]
  /\ acc' = {}
  /\ ret' = NoRet
  /\ UNCHANGED <<marketData, signals, portfolio, riskParameters,
                 tradingEnabled, claudeSet, algorithms, configs, lastStore, stamp, blocked, calls>>

\* the keys of a.marketData; a.mu.RUnlock()
GetStatusSymbols(t) ==
  /\ At(t, "GetStatus", "symbols")
  /\ acc' = Access(t, "marketData", "r")
  /\ mu' = RUnlock(t)
  /\ loc' = [loc EXCEPT ![t].symbols = DOMAIN marketData, ![t].pc = "running"]
  /\ ret' = NoRet
  /\ UNCHANGED <<marketData, signals, portfolio, riskParameters,
                 tradingEnabled, claudeSet, algorithms, configs, lastStore, stamp, blocked, calls>>

\* IsRunning: a.tradingEnabled, read while building the status
GetStatusRunning(t) ==
  /\ At(t, "GetStatus", "running")
  /\ acc' = Access(t, "tradingEnabled", "r")
  /\ loc' = [loc EXCEPT ![t].running = tradingEnabled, ![t].pc = "risk_rlock"]
  /\ ret' = NoRet
  /\ UNCHANGED <<marketData, signals, portfolio, riskParameters,
                 tradingEnabled, claudeSet, algorithms, configs, lastStore, stamp, mu, blocked, calls>>

\* GetRiskParameters' copy and a.mu.RUnlock(); return &AlgorithmStatus{...}
GetStatusRisk(t) ==
  /\ At(t, "GetStatus", "risk")
  /\ acc' = Access(t, "riskParameters", "r")
  /\ mu' = RUnlock(t)
  /\ Return(t, [Ret("GetStatus", "") EXCEPT
                  !.running = loc[t].running, !.symbols = loc[t].symbols,
                  !.sigs = loc[t].sigs, !.rp = CopyParams(riskParameters)])
  /\ UNCHANGED <<marketData, signals, portfolio, riskParameters,
                 tradingEnabled, claudeSet, algorithms, configs, lastStore, stamp, blocked, calls>>

\* ------------------------------------------------------------------ UpdateRiskParameters
PercentKeys == {"max_position_size_percent", "max_daily_drawdown",
                "stop_loss_percent", "take_profit_percent"}
TradesKey == "max_trades_per_day"

\* The switch of the validation loop for one key: the error, or "" when the
\* value passes.
ValidateParam(k, v) ==
  IF k \in PercentKeys
  THEN IF v.type \in {"float64", "int"}
       THEN IF v.num <= 0 THEN "must be positive" ELSE ""
       ELSE "must be numeric"
  ELSE IF k = TradesKey
  THEN IF v.type = "float64"
       THEN IF v.num <= 0 \/ v.num % v.den # 0
            THEN "must be a positive integer" ELSE ""
       ELSE IF v.type = "int"
       THEN IF v.num <= 0 THEN "must be positive" ELSE ""
       ELSE "must be an integer"
  ELSE "unknown parameter"

\* The conversions the validation loop writes back into params: an int
\* percentage becomes a float64, an integral float64 trade count an int.
CoerceParam(k, v) ==
  IF k \in PercentKeys /\ v.type = "int" THEN RV("float64", v.num, 1)
  ELSE IF k = TradesKey /\ v.type = "float64" THEN RV("int", v.num \div v.den, 1)
  ELSE v

\* The orders in which `range params` may visit the keys.
KeyOrders(params) ==
  {o \in [1..Cardinality(DOMAIN params) -> DOMAIN params] :
     \A i, j \in DOMAIN o : i # j => o[i] # o[j]}

\* The validation loop: the error of the first invalid key in the order
\* visited, or "".
RECURSIVE FirstError(_, _)
FirstError(params, order) ==
  IF order = << >> THEN ""
  ELSE LET e == ValidateParam(Head(order), params[Head(order)]) IN
       IF e # "" THEN e ELSE FirstError(params, Tail(order))

\* A loop that would store each key as soon as it has validated it.
RECURSIVE ValidateAndStoreEach(_, _, _)
ValidateAndStoreEach(rp, params, order) ==
  IF order = << >> THEN [rp |-> rp, err |-> ""]
  ELSE LET k == Head(order)
           e == ValidateParam(k, params[k])
       IN IF e # "" THEN [rp |-> rp, err |-> e]
          ELSE ValidateAndStoreEach(MapPut(rp, k, CoerceParam(k, params[k])),
                                    params, Tail(order))

\* UpdateRiskParameters between Lock and Unlock: every key is validated, and
\* only then are the (converted) values stored.
ValidateThenStore(rp, params, order) ==
  LET e == FirstError(params, order) IN
  IF e # "" THEN [rp |-> rp, err |-> e]
  ELSE [rp |-> [k \in (DOMAIN rp) \cup (DOMAIN params) |->
                  IF k \in DOMAIN params THEN CoerceParam(k, params[k])
                  ELSE rp[k]],
        err |-> ""]

\* a.mu.Lock() of UpdateRiskParameters(params)
UpdateRiskParametersLock(t, params) ==
  /\ CanBegin(t) /\ CanLock
  /\ mu' = Lock(t)
  /\ loc' = [loc EXCEPT ![t] = [IdleFrame EXCEPT !.op = "UpdateRiskParameters",
                                  !.pc = "update", !.params = params]]
  /\ calls' = calls - 1
  /\ acc' = {}
  /\ ret' = NoRet
  /\ UNCHANGED <<marketData, signals, portfolio, riskParameters,
                 tradingEnabled, claudeSet, algorithms, configs, lastStore, stamp, blocked>>

\* the two loops; the deferred a.mu.Unlock()
UpdateRiskParametersUpdate(t) ==
  /\ At(t, "UpdateRiskParameters", "update")
  /\ \E order \in KeyOrders(loc[t].params) :
       LET r == ValidateThenStore(riskParameters, loc[t].params, order) IN
         /\ riskParameters' = r.rp
         /\ Return(t, [Ret("UpdateRiskParameters", r.err) EXCEPT
                         !.params = loc[t].params])
  /\ acc' = Access(t, "riskParameters", "w")
  /\ mu' = Unlock(t)
  /\ UNCHANGED <<marketData, signals, portfolio, tradingEnabled, claudeSet, algorithms, configs,
                 lastStore, stamp, blocked, calls>>

\* ------------------------------------------------------------------ ExecuteTrade
ErrNilSignal == "signal is nil"
ErrUnknownSignal == "unknown signal type"
DefaultMaxPosSize == 5

\* int(x) of a quotient n/d with d > 0: truncation toward zero.
Trunc(n, d) == IF n >= 0 THEN n \div d ELSE -((-n) \div d)

\* A sizing that would round the quotient to the nearest share.
calculatePositionSizeNearest(pvNum, pvDen, currentPrice, isBuy) ==
  LET price == IF currentPrice <= 0 THEN 1 ELSE currentPrice
      qty == Trunc(2 * pvNum + pvDen * price, 2 * pvDen * price)
  IN IF isBuy THEN qty ELSE -qty

\* calculatePositionSize(positionValue, currentPrice, isBuy), with
\* positionValue = pvNum/pvDen.
calculatePositionSize(pvNum, pvDen, currentPrice, isBuy) ==
  LET price == IF currentPrice <= 0 THEN 1 ELSE currentPrice
      qty == Trunc(pvNum, pvDen * price)
  IN IF isBuy THEN qty ELSE -qty

\* maxPosSize, ok := riskParams["max_position_size_percent"].(float64), with
\* the 5.0 default.
MaxPosSize(rp) ==
  IF Has(rp, "max_position_size_percent")
     /\ rp["max_position_size_percent"].type = "float64"
  THEN rp["max_position_size_percent"]
  ELSE RV("float64", DefaultMaxPosSize, 1)

\* positionValue := portfolio.TotalValue * (maxPosSize / 100.0), sized
SizedQty(pf, rp, md, isBuy) ==
  calculatePositionSize(pf.TotalValue * MaxPosSize(rp).num,
                        100 * MaxPosSize(rp).den, md.Price, isBuy)

\* The order of the "Order details" line.  A limit price that is not
\* positive is left out of it.
Order(signal, side, qty) ==
  [issued |-> TRUE, symbol |-> signal.Symbol, side |-> side, qty |-> qty,
   type |-> signal.OrderType,
   limitPrice |-> IF signal.hasLimit /\ signal.LimitPrice > 0
                  THEN signal.LimitPrice ELSE 0]
Outcome(err, order) == [err |-> err, order |-> order]
Abs(x) == IF x < 0 THEN -x ELSE x

\* A close that would treat a missing position as a flat one.
CloseMissingAsFlat(signal, pf) ==
  LET qty == IF Has(pf.Positions, signal.Symbol)
             THEN pf.Positions[signal.Symbol].Quantity ELSE 0
  IN Outcome("", Order(signal, IF qty > 0 THEN "sell" ELSE "buy", Abs(qty)))

\* case SignalClose
Close(signal, pf) ==
  IF ~Has(pf.Positions, signal.Symbol) THEN Outcome("", NoOrder)
  ELSE LET qty == pf.Positions[signal.Symbol].Quantity IN
       Outcome("", Order(signal, IF qty > 0 THEN "sell" ELSE "buy", Abs(qty)))

\* hasPosition && position.Quantity > 0
HasLong(pf, symbol) ==
  Has(pf.Positions, symbol) /\ pf.Positions[symbol].Quantity > 0

\* The switch on signal.Signal and what follows it.
Trade(signal, md, pf, rp) ==
  IF signal.Signal = SignalBuy
  THEN IF HasLong(pf, signal.Symbol) THEN Outcome("", NoOrder)
       ELSE Outcome("", Order(signal, "buy", SizedQty(pf, rp, md, TRUE)))
  ELSE IF signal.Signal = SignalSell
  THEN IF HasLong(pf, signal.Symbol)
       THEN Outcome("", Order(signal, "sell",
                              pf.Positions[signal.Symbol].Quantity))
       ELSE Outcome("", Order(signal, "sell", SizedQty(pf, rp, md, FALSE)))
  ELSE IF signal.Signal = SignalClose THEN Close(signal, pf)
  ELSE IF signal.Signal = SignalHold THEN Outcome("", NoOrder)
  ELSE Outcome(ErrUnknownSignal, NoOrder)

\* The branches that index riskParams.
ReadsRiskParams(signal, pf) ==
  /\ signal.Signal \in {SignalBuy, SignalSell}
  /\ ~HasLong(pf, signal.Symbol)

\* if signal == nil; a.mu.RLock() of ExecuteTrade(signal).  The frame notes
\* whether trading was disabled when the call began (the code never reads
\* tradingEnabled here, so no access is recorded).
ExecuteTradeRLock(t, signal) ==
  /\ CanBegin(t)
  /\ calls' = calls - 1
  /\ acc' = {}
  /\ IF signal = NilSignal
     THEN /\ Return(t, Ret("ExecuteTrade", ErrNilSignal))
          /\ mu' = mu
     ELSE /\ CanRLock
          /\ mu' = RLock(t)
          /\ loc' = [loc EXCEPT ![t] = [IdleFrame EXCEPT !.op = "ExecuteTrade",
                                          !.pc = "read", !.sig = signal,
                                          !.sym = signal.Symbol,
                                          !.mustRefuse = ~tradingEnabled]]
          /\ ret' = NoRet
  /\ UNCHANGED <<marketData, signals, portfolio, riskParameters,
                 tradingEnabled, claudeSet, algorithms, configs, lastStore, stamp, blocked>>

\* marketData, exists := a.marketData[signal.Symbol]; portfolio := a.portfolio;
\* riskParams := a.riskParameters (the map itself, not a copy);
\* a.mu.RUnlock(); if !exists
ExecuteTradeRead(t) ==
  /\ At(t, "ExecuteTrade", "read")
  /\ acc' = Access(t, "marketData", "r") \cup Access(t, "portfolio", "r")
  /\ mu' = RUnlock(t)
  /\ IF Has(marketData, loc[t].sym)
     THEN /\ loc' = [loc EXCEPT ![t].pc = "trade",
                                ![t].md = marketData[loc[t].sym],
                                ![t].pf = portfolio]
          /\ ret' = NoRet
     ELSE Return(t, [Ret("ExecuteTrade", ErrNoMarketData) EXCEPT
                       !.sym = loc[t].sym, !.sig = loc[t].sig,
                       !.pf = portfolio])
  /\ UNCHANGED <<marketData, signals, portfolio, riskParameters,
                 tradingEnabled, claudeSet, algorithms, configs, lastStore, stamp, blocked, calls>>

\* The rest of ExecuteTrade, after the lock is released: riskParams[...]
\* indexes the shared map.
ExecuteTradeTrade(t) ==
  /\ At(t, "ExecuteTrade", "trade")
  /\ LET r == Trade(loc[t].sig, loc[t].md, loc[t].pf, riskParameters) IN
       Return(t, [Ret("ExecuteTrade", r.err) EXCEPT
                    !.order = r.order, !.sym = loc[t].sym,
                    !.running = ~loc[t].mustRefuse,
                    !.sig = loc[t].sig, !.md = loc[t].md,
                    !.pf = loc[t].pf, !.rp = riskParameters])
  /\ acc' = IF ReadsRiskParams(loc[t].sig, loc[t].pf)
            THEN Access(t, "riskParameters", "r") ELSE {}
  /\ UNCHANGED <<marketData, signals, portfolio, riskParameters,
                 tradingEnabled, claudeSet, algorithms, configs, mu, lastStore, stamp, blocked, calls>>

\* ------------------------------------------------------------------ the coordinator
\* The arguments the callers draw.
SymbolLists == {<<"A">>, <<"A", "B">>}
Prices == {100}
RiskInputs ==
  {[max_position_size_percent |-> RV("float64", 10, 1)],
   [max_trades_per_day |-> RV("int", 0, 1)]}
TradeInputs == {NilSignal, TradeSignal("A", SignalBuy, "market", FALSE, 0, "")}

\* The session and its signals: Start, Stop, UpdateMarketData, ProcessSymbol,
\* GetSignal and GetAllSignals.
NextSignals ==
  \/ \E t \in Threads, syms \in SymbolLists : StartLock(t, syms)
  \/ \E t \in Threads : StartReset(t)
  \/ \E t \in Threads : StartSeed(t)
  \/ \E t \in Threads : StartGetAccount(t)
  \/ \E t \in Threads : StartGetPositions(t)
  \/ \E t \in Threads : StartPfLock(t)
  \/ \E t \in Threads : StartPfWrite(t)
  \/ \E t \in Threads : StartEnable(t)
  \/ \E t \in Threads : StopLock(t)
  \/ \E t \in Threads : StopDisable(t)
  \/ \E t \in Threads, s \in Symbols, p \in Prices : UpdateMarketDataLock(t, s, p, 0)
  \/ \E t \in Threads : UpdateMarketDataWrite(t)
  \/ \E t \in Threads, s \in Symbols : ProcessSymbolGate(t, s)
  \/ \E t \in Threads : ProcessSymbolStoreLock(t)
  \/ \E t \in Threads : ProcessSymbolStore(t)
  \/ \E t \in Threads : ProcessSymbolRLock(t)
  \/ \E t \in Threads : ProcessSymbolRead(t)
  \/ \E t \in Threads : ProcessSymbolGenerate(t)
  \/ \E t \in Threads, s \in Symbols : GetSignalRLock(t, s)
  \/ \E t \in Threads : GetSignalRead(t)
  \/ \E t \in Threads : GetAllSignalsRLock(t)
  \/ \E t \in Threads : GetAllSignalsRead(t)

SpecSignals == Init /\ [][NextSignals]_vars

\* Every public operation of the coordinator.
Next ==
  \/ NextSignals
  \/ \E t \in Threads, s \in Symbols : GetterRLock(t, "GetMarketData", s)
  \/ \E t \in Threads : GetterRLock(t, "GetPortfolio", "")
  \/ \E t \in Threads : GetterRLock(t, "GetRiskParameters", "")
  \/ \E t \in Threads : GetMarketDataRead(t)
  \/ \E t \in Threads : GetPortfolioRead(t)
  \/ \E t \in Threads : GetRiskParametersRead(t)
  \/ \E t \in Threads, syms \in SymbolLists \cup {<< >>} : UpdateStatusLock(t, syms)
  \/ \E t \in Threads : UpdateStatusAdd(t)
  \/ \E t \in Threads : GetStatusSignalsRLock(t)
  \/ \E t \in Threads : GetStatusSignals(t)
  \/ \E t \in Threads : GetStatusRLock(t)
  \/ \E t \in Threads : GetStatusSymbols(t)
  \/ \E t \in Threads : GetStatusRunning(t)
  \/ \E t \in Threads : GetStatusRisk(t)
  \/ \E t \in Threads, params \in RiskInputs : UpdateRiskParametersLock(t, params)
  \/ \E t \in Threads : UpdateRiskParametersUpdate(t)
  \/ \E t \in Threads, signal \in TradeInputs : ExecuteTradeRLock(t, signal)
  \/ \E t \in Threads : ExecuteTradeRead(t)
  \/ \E t \in Threads : ExecuteTradeTrade(t)

Spec == Init /\ [][Next]_vars

\* ------------------------------------------------------------------ risk parameters
\* UpdateRiskParameters called with every map of up to MaxParamKeys entries
\* over a percentage, the trade count and an unknown key, valid and invalid
\* values of each kind, and GetRiskParameters reading the result.
MaxRiskCalls == 2
MaxParamKeys == 2
RiskKeys == {"max_position_size_percent", TradesKey, "bogus"}
ParamValues(k) ==
  IF k = "max_position_size_percent"
  THEN {RV("float64", 10, 1), RV("float64", 5, 2), RV("int", 3, 1),
        RV("float64", 0, 1), RV("string", 0, 1)}
  ELSE IF k = TradesKey
  THEN {RV("int", 3, 1), RV("float64", 7, 1), RV("float64", 5, 2),
        RV("int", 0, 1)}
  ELSE {RV("int", 1, 1)}
AllRiskInputs ==
  UNION {{f \in [K -> UNION {ParamValues(k) : k \in RiskKeys}] :
            \A k \in K : f[k] \in ParamValues(k)} :
         K \in {K \in SUBSET RiskKeys : Cardinality(K) <= MaxParamKeys}}

InitRisk ==
  /\ marketData = EmptyMap
  /\ signals = EmptyMap
  /\ portfolio = ZeroPortfolio
  /\ riskParameters = DefaultRiskParameters
  /\ tradingEnabled = FALSE
  /\ claudeSet = TRUE
  /\ algorithms = << >>
  /\ configs = << >>
  /\ mu = Unlocked
  /\ loc = [t \in Threads |-> IdleFrame]
  /\ ret = NoRet
  /\ acc = {}
  /\ blocked = FALSE
  /\ lastStore = EmptyMap
  /\ stamp = NoStamp
  /\ calls = MaxRiskCalls

NextRisk ==
  \/ \E t \in Threads, params \in AllRiskInputs : UpdateRiskParametersLock(t, params)
  \/ \E t \in Threads : UpdateRiskParametersUpdate(t)
  \/ \E t \in Threads : GetterRLock(t, "GetRiskParameters", "")
  \/ \E t \in Threads : GetRiskParametersRead(t)

SpecRisk == InitRisk /\ [][NextRisk]_vars

\* ------------------------------------------------------------------ trading
\* The coordinator once it has been started, quoted and funded: market data
\* for "A" (as Start seeded it, price 0, or as UpdateMarketData left it), the
\* snapshot of one refresh, ExecuteTrade called with every kind of signal and
\* UpdateRiskParameters changing the position size under it.
MaxGateCalls == 2
GatePrices == {0, 100, 300}
GateEquities == {10000, 250, -500}
GatePositions == {<< >>, <<PositionData("A", 10)>>, <<PositionData("A", -4)>>}
GateRiskInputs ==
  {[max_position_size_percent |-> v] :
     v \in {RV("float64", 10, 1), RV("float64", 5, 2), RV("int", 3, 1)}}
GateTradeInputs ==
  {NilSignal, TradeSignal("A", SignalBuy, "limit", TRUE, 99, "")}
  \cup {TradeSignal(s, g, "market", FALSE, 0, "") :
          s \in Symbols,
          g \in {SignalBuy, SignalSell, SignalHold, SignalClose, SignalNone}}

InitGate ==
  /\ marketData \in {MapPut(EmptyMap, "A", MarketData("A", p, 0)) : p \in GatePrices}
  /\ signals = EmptyMap
  /\ portfolio \in {NewPortfolio([Cash |-> 4000, Equity |-> e, LastEquity |-> e], ps) :
                      e \in GateEquities, ps \in GatePositions}
  /\ riskParameters = DefaultRiskParameters
  /\ tradingEnabled = TRUE
  /\ claudeSet = TRUE
  /\ algorithms = << >>
  /\ configs = << >>
  /\ mu = Unlocked
  /\ loc = [t \in Threads |-> IdleFrame]
  /\ ret = NoRet
  /\ acc = {}
  /\ blocked = FALSE
  /\ lastStore = EmptyMap
  /\ stamp = NoStamp
  /\ calls = MaxGateCalls

NextGate ==
  \/ \E t \in Threads, params \in GateRiskInputs : UpdateRiskParametersLock(t, params)
  \/ \E t \in Threads : UpdateRiskParametersUpdate(t)
  \/ \E t \in Threads, signal \in GateTradeInputs : ExecuteTradeRLock(t, signal)
  \/ \E t \in Threads : ExecuteTradeRead(t)
  \/ \E t \in Threads : ExecuteTradeTrade(t)

SpecGate == InitGate /\ [][NextGate]_vars

\* ------------------------------------------------------------------ order execution
\* executeBuyOrder and executeSellOrder.  Prices are in mills (thousandths
\* of a dollar), cash in dollars; products and quotients are exact.
ErrAccount == "failed to get account info"
ErrQuote == "failed to get quote"
ErrZeroPrice == "invalid price (0)"
ErrPlaceBuy == "failed to place buy order"
ErrPlaceSell == "failed to place sell order"
ErrNoPosition == "no position found"

\* strings.ToLower on the order types that occur.
ToLower(s) == IF s = "LIMIT" THEN "limit" ELSE IF s = "MARKET" THEN "market" ELSE s

\* decimal.NewFromFloat(n/d mills).Round(2): to the nearest cent, halves away
\* from zero; the result in mills.
RoundCents(n, d) ==
  IF n >= 0 THEN 10 * ((2 * n + 10 * d) \div (20 * d))
  ELSE -10 * ((2 * (-n) + 10 * d) \div (20 * d))

\* fmt.Sprintf("%.0f", n/d) for n >= 0: to the nearest whole number, halves
\* to the even one.
RoundHalfEven(n, d) ==
  LET q == n \div d
      r == n % d
  IN IF 2 * r < d THEN q
     ELSE IF 2 * r > d THEN q + 1
     ELSE IF q % 2 = 0 THEN q ELSE q + 1

\* signal.LimitPrice == nil || *signal.LimitPrice <= 0
NoLimitPrice(signal) == ~signal.hasLimit \/ signal.LimitPrice <= 0

\* proposedPrice < marketPrice*lo/100 || proposedPrice > marketPrice*hi/100
OutsideBand(proposed, market, lo, hi) ==
  proposed * 100 < market * lo \/ proposed * 100 > market * hi

\* The limit price of executeBuyOrder for a limit order.
BuyLimitPrice(signal, marketPrice) ==
  IF NoLimitPrice(signal) THEN marketPrice
  ELSE IF OutsideBand(signal.LimitPrice, marketPrice, 70, 105)
  THEN RoundCents(99 * marketPrice, 100)
  ELSE RoundCents(signal.LimitPrice, 1)

\* The limit price of executeSellOrder for a limit order; quoted is whether
\* GetLatestQuote answered.
SellLimitPrice(signal, marketPrice, quoted) ==
  IF NoLimitPrice(signal) THEN RoundCents(marketPrice, 1)
  ELSE IF quoted /\ OutsideBand(signal.LimitPrice, marketPrice, 70, 130)
  THEN RoundCents(101 * marketPrice, 100)
  ELSE RoundCents(signal.LimitPrice, 1)

\* The request a call builds.  A request that is no limit order carries no
\* limit price.
OrderRequest(signal, side, qty, limitPrice) ==
  [issued |-> TRUE, symbol |-> signal.Symbol, side |-> side, qty |-> qty,
   type |-> ToLower(signal.OrderType),
   limitPrice |-> IF ToLower(signal.OrderType) = "limit" THEN limitPrice ELSE 0]

\* What the broker and the quote service may answer.
OrderCash == {4000}
OrderQuotes == {0, 100, 150, 10000}
OrderQuantities == {10}

\* client.GetAccount() of executeBuyOrder(signal)
executeBuyOrderAccount(t, signal) ==
  /\ CanBegin(t)
  /\ calls' = calls - 1
  /\ acc' = {}
  /\ \/ Return(t, [Ret("executeBuyOrder", ErrAccount) EXCEPT !.sig = signal])
     \/ \E cash \in OrderCash :
          /\ loc' = [loc EXCEPT ![t] =
                       [IdleFrame EXCEPT !.op = "executeBuyOrder", !.pc = "quote",
                                         !.sig = signal, !.sym = signal.Symbol,
                                         !.acct.Cash = cash]]
          /\ ret' = NoRet
  /\ UNCHANGED <<marketData, signals, portfolio, riskParameters,
                 tradingEnabled, claudeSet, algorithms, configs, mu, lastStore, stamp, blocked>>

\* mdClient.GetLatestQuote; latestPrice == 0; the quantity and the limit price
executeBuyOrderQuote(t) ==
  /\ At(t, "executeBuyOrder", "quote")
  /\ \/ Return(t, [Ret("executeBuyOrder", ErrQuote) EXCEPT !.sig = loc[t].sig])
     \/ \E bid \in OrderQuotes :
          IF bid = 0
          THEN Return(t, [Ret("executeBuyOrder", ErrZeroPrice) EXCEPT
                            !.sig = loc[t].sig])
          ELSE /\ loc' = [loc EXCEPT
                            ![t].pc = "place",
                            ![t].md = MarketData(loc[t].sym, bid, 0),
                            ![t].order =
                              OrderRequest(loc[t].sig, "buy",
                                           RoundHalfEven(loc[t].acct.Cash * 50, bid),
                                           BuyLimitPrice(loc[t].sig, bid))]
               /\ ret' = NoRet
  /\ UNCHANGED <<marketData, signals, portfolio, riskParameters,
                 tradingEnabled, claudeSet, algorithms, configs, mu, lastStore, stamp, blocked, calls, acc>>

\* client.PlaceOrder(orderRequest) of either function: the request reaches
\* the broker, which accepts or refuses it.
PlaceOrder(t, op, err) ==
  /\ At(t, op, "place")
  /\ \E e \in {"", err} :
       Return(t, [Ret(op, e) EXCEPT !.order = loc[t].order, !.sig = loc[t].sig,
                                    !.sym = loc[t].sym, !.md = loc[t].md])
  /\ UNCHANGED <<marketData, signals, portfolio, riskParameters,
                 tradingEnabled, claudeSet, algorithms, configs, mu, lastStore, stamp, blocked, calls, acc>>

\* client.GetPosition(signal.Symbol) of executeSellOrder(signal)
executeSellOrderPosition(t, signal) ==
  /\ CanBegin(t)
  /\ calls' = calls - 1
  /\ acc' = {}
  /\ \/ Return(t, [Ret("executeSellOrder", ErrNoPosition) EXCEPT !.sig = signal])
     \/ \E qty \in OrderQuantities :
          /\ loc' = [loc EXCEPT ![t] =
                       [IdleFrame EXCEPT !.op = "executeSellOrder", !.pc = "price",
                                         !.sig = signal, !.sym = signal.Symbol,
                                         !.pos = <<PositionData(signal.Symbol, qty)>>]]
          /\ ret' = NoRet
  /\ UNCHANGED <<marketData, signals, portfolio, riskParameters,
                 tradingEnabled, claudeSet, algorithms, configs, mu, lastStore, stamp, blocked>>

\* The limit-price block of executeSellOrder.  ask is the market's asking
\* price when the order is priced, quoted whether GetLatestQuote answered
\* with it; an order that is no limit order asks for no quote.
executeSellOrderPrice(t) ==
  /\ At(t, "executeSellOrder", "price")
  /\ \E ask \in OrderQuotes, quoted \in BOOLEAN :
       LET limit == ToLower(loc[t].sig.OrderType) = "limit" IN
       /\ ~limit => ask = 0 /\ quoted
       /\ IF limit /\ NoLimitPrice(loc[t].sig) /\ ~quoted
          THEN Return(t, [Ret("executeSellOrder", ErrQuote) EXCEPT
                            !.sig = loc[t].sig])
          ELSE /\ loc' = [loc EXCEPT
                            ![t].pc = "place",
                            ![t].md = MarketData(loc[t].sym, ask, 0),
                            ![t].order =
                              OrderRequest(loc[t].sig, "sell",
                                           loc[t].pos[1].Quantity,
                                           SellLimitPrice(loc[t].sig, ask, quoted))]
               /\ ret' = NoRet
  /\ UNCHANGED <<marketData, signals, portfolio, riskParameters,
                 tradingEnabled, claudeSet, algorithms, configs, mu, lastStore, stamp, blocked, calls, acc>>

\* The signals the /api/executeTrade handler builds from a request and hands
\* to the two functions: a limit price is present only if the request's is
\* positive.
MaxOrderCalls == 2
OrderLimitPrices == {50, 105, 140, 195, 9000}
OrderSignals(tag) ==
  {TradeSignal("A", tag, "market", FALSE, 0, ""),
   TradeSignal("A", tag, "limit", FALSE, 0, "")}
  \cup {TradeSignal("A", tag, otype, TRUE, p, "") :
          otype \in {"limit", "LIMIT"}, p \in OrderLimitPrices}

InitOrders ==
  /\ marketData = EmptyMap
  /\ signals = EmptyMap
  /\ portfolio = ZeroPortfolio
  /\ riskParameters = DefaultRiskParameters
  /\ tradingEnabled = TRUE
  /\ claudeSet = TRUE
  /\ algorithms = << >>
  /\ configs = << >>
  /\ mu = Unlocked
  /\ loc = [t \in Threads |-> IdleFrame]
  /\ ret = NoRet
  /\ acc = {}
  /\ blocked = FALSE
  /\ lastStore = EmptyMap
  /\ stamp = NoStamp
  /\ calls = MaxOrderCalls

NextOrders ==
  \/ \E t \in Threads, signal \in OrderSignals(SignalBuy) : executeBuyOrderAccount(t, signal)
  \/ \E t \in Threads : executeBuyOrderQuote(t)
  \/ \E t \in Threads : PlaceOrder(t, "executeBuyOrder", ErrPlaceBuy)
  \/ \E t \in Threads, signal \in OrderSignals(SignalSell) : executeSellOrderPosition(t, signal)
  \/ \E t \in Threads : executeSellOrderPrice(t)
  \/ \E t \in Threads : PlaceOrder(t, "executeSellOrder", ErrPlaceSell)

SpecOrders == InitOrders /\ [][NextOrders]_vars

\* ------------------------------------------------------------------ ensemble combiner
\* AlgorithmManager.combineResults.  A confidence, a weight or a limit price
\* is a fraction num/den in lowest terms with den > 0; the comparisons, sums
\* and quotients on them are exact.
RECURSIVE GCD(_, _)
GCD(a, b) == IF b = 0 THEN a ELSE GCD(b, a % b)
Frac(num, den) ==
  LET g == GCD(IF num < 0 THEN -num ELSE num, den) IN
  [num |-> num \div g, den |-> den \div g]
FracLess(a, b) == a.num * b.den < b.num * a.den
FracAdd(a, b) == Frac(a.num * b.den + b.num * a.den, a.den * b.den)

\* *AlgorithmResult.  hasLimit = FALSE is a nil LimitPrice.
AlgorithmResult(signal, otype, hasLimit, limit, confidence) ==
  [Signal |-> signal, OrderType |-> otype, hasLimit |-> hasLimit,
   LimitPrice |-> limit, Confidence |-> confidence]
ErrNoResults == "no results to combine"

\* The sum of the confidences of the results with the tags in tags.
RECURSIVE SumConfidence(_, _)
SumConfidence(results, tags) ==
  IF results = << >> THEN Frac(0, 1)
  ELSE LET rest == SumConfidence(Tail(results), tags) IN
       IF Head(results).Signal \in tags
       THEN FracAdd(Head(results).Confidence, rest) ELSE rest

\* The keys of signalWeights.
Tags(results) == {results[i].Signal : i \in DOMAIN results}

\* signalWeights[tag] after the normalization, which is skipped when
\* totalConfidence is not positive.
Weight(results, tag) ==
  LET sum == SumConfidence(results, {tag})
      total == SumConfidence(results, Tags(results))
  IN IF total.num > 0 THEN Frac(sum.num * total.den, sum.den * total.num)
     ELSE sum

\* The loop `for signal, weight := range signalWeights` over the keys in the
\* order visited, from what it has so far.
RECURSIVE MaxWeightLoop(_, _, _)
MaxWeightLoop(results, order, best) ==
  IF order = << >> THEN best
  ELSE LET w == Weight(results, Head(order)) IN
       MaxWeightLoop(results, Tail(order),
                     IF FracLess(best.maxWeight, w)
                     THEN [combinedSignal |-> Head(order), maxWeight |-> w]
                     ELSE best)

\* The orders in which a range over a map with these keys may visit them.
MapOrders(keys) ==
  {o \in [1..Cardinality(keys) -> keys] :
     \A i, j \in DOMAIN o : i # j => o[i] # o[j]}

\* math.Abs(totalBuyWeight-totalSellWeight) < 0.2*totalConfidence
BuySellClose(results) ==
  LET b == SumConfidence(results, {SignalBuy})
      s == SumConfidence(results, {SignalSell})
      total == SumConfidence(results, Tags(results))
  IN 5 * Abs(b.num * s.den - s.num * b.den) * total.den
       < total.num * b.den * s.den

\* (totalBuyWeight + totalSellWeight) / 2
HalfBuyPlusSell(results) ==
  LET sum == SumConfidence(results, {SignalBuy, SignalSell}) IN
  Frac(sum.num, 2 * sum.den)

\* The buy results that carry a limit price, and the mean of their prices.
RECURSIVE PricedBuys(_)
PricedBuys(results) ==
  IF results = << >> THEN << >>
  ELSE IF Head(results).Signal = SignalBuy /\ Head(results).hasLimit
  THEN <<Head(results)>> \o PricedBuys(Tail(results))
  ELSE PricedBuys(Tail(results))
RECURSIVE TotalPrice(_)
TotalPrice(results) ==
  IF results = << >> THEN Frac(0, 1)
  ELSE FracAdd(Head(results).LimitPrice, TotalPrice(Tail(results)))
AvgPrice(results) ==
  LET priced == PricedBuys(results) IN
  Frac(TotalPrice(priced).num, TotalPrice(priced).den * Len(priced))

\* combineResults(symbol, results) for two results or more, the map visited
\* in the given order.
Combine(results, order) ==
  LET first == MaxWeightLoop(results, order,
                             [combinedSignal |-> "", maxWeight |-> Frac(0, 1)])
      toHold == /\ BuySellClose(results)
                /\ first.combinedSignal \in {SignalBuy, SignalSell}
      combinedSignal == IF toHold THEN SignalHold ELSE first.combinedSignal
      maxWeight == IF toHold THEN HalfBuyPlusSell(results) ELSE first.maxWeight
      limit == combinedSignal = SignalBuy /\ FracLess(Frac(7, 10), maxWeight)
      priced == limit /\ PricedBuys(results) # << >>
  IN AlgorithmResult(combinedSignal, IF limit THEN "limit" ELSE "market",
                     priced, IF priced THEN AvgPrice(results) ELSE Frac(0, 1),
                     maxWeight)

\* combineResults(symbol, results): nothing to combine is an error, a single
\* result is returned as it is.
combineResults(t, results) ==
  /\ CanBegin(t)
  /\ calls' = calls - 1
  /\ acc' = {}
  /\ IF results = << >>
     THEN Return(t, Ret("combineResults", ErrNoResults))
     ELSE \E order \in MapOrders(Tags(results)) :
            Return(t, [Ret("combineResults", "") EXCEPT
                         !.args = results,
                         !.out = IF Len(results) = 1 THEN results[1]
                                 ELSE Combine(results, order)])
  /\ UNCHANGED <<marketData, signals, portfolio, riskParameters,
                 tradingEnabled, claudeSet, algorithms, configs, mu, lastStore, stamp, blocked>>

\* ------------------------------------------------------------------ MVO
\* MVOAlgorithm.Process on market data at this price, for historical data
\* whose returns have the mean expectedReturn and the standard deviation
\* risk; risk_aversion and min_sharpe are the defaults 2.0 and 0.5.
FracNeg(a) == [num |-> -a.num, den |-> a.den]
FracMul(a, b) == Frac(a.num * b.num, a.den * b.den)
FracMin(a, b) == IF FracLess(b, a) THEN b ELSE a
MVOResult(price, expectedReturn, risk) ==
  LET sharpeRatio == IF risk.num > 0
                     THEN Frac(expectedReturn.num * risk.den,
                               expectedReturn.den * risk.num)
                     ELSE Frac(0, 1)
      utility == FracAdd(expectedReturn, FracNeg(FracMul(risk, risk)))
  IN IF FracLess(Frac(1, 2), sharpeRatio) /\ utility.num > 0
     THEN AlgorithmResult(SignalBuy, "limit", TRUE, Frac(price * 99, 100),
            FracAdd(Frac(65, 100),
                    FracMin(Frac(25, 100), FracMul(sharpeRatio, Frac(1, 4)))))
     ELSE IF sharpeRatio.num > 0 /\ FracLess(Frac(-1, 1000), utility)
     THEN AlgorithmResult(SignalHold, "market", FALSE, Frac(0, 1), Frac(6, 10))
     ELSE AlgorithmResult(SignalSell, "market", FALSE, Frac(0, 1),
            FracAdd(Frac(7, 10), FracNeg(FracMin(Frac(2, 10), sharpeRatio))))

MVOProcess(t, price, expectedReturn, risk) ==
  /\ CanBegin(t)
  /\ calls' = calls - 1
  /\ acc' = {}
  /\ Return(t, [Ret("MVOAlgorithm.Process", "") EXCEPT
                  !.args = <<price, expectedReturn, risk>>,
                  !.out = MVOResult(price, expectedReturn, risk)])
  /\ UNCHANGED <<marketData, signals, portfolio, riskParameters,
                 tradingEnabled, claudeSet, algorithms, configs, mu, lastStore, stamp, blocked>>

\* Means and standard deviations of returns: returns at -8, +3 and +5 steps
\* from their mean have a standard deviation of 7 steps, equal returns one
\* of 0.
MVOPrices == {100, 250}
MVOReturns == {Frac(-7, 100), Frac(-1, 100), Frac(0, 1), Frac(1, 100), Frac(7, 100)}
MVORisks == {Frac(0, 1), Frac(1, 100), Frac(7, 100)}

\* The results handed to the combiner: each algorithm that succeeded gives
\* one, a market order without a limit price or a limit buy with its price.
MaxResults == 2
MaxCombineCalls == 2
CombinerConfidences == {Frac(6, 10), Frac(10, 10)}
CombinerResults ==
  {AlgorithmResult(tag, "market", FALSE, Frac(0, 1), c) :
     tag \in {SignalBuy, SignalSell, SignalHold}, c \in CombinerConfidences}
  \cup {AlgorithmResult(SignalBuy, "limit", TRUE, Frac(99, 1), Frac(10, 10))}
ResultLists == UNION {[1..n -> CombinerResults] : n \in 0..MaxResults}
CombinerInputs == ResultLists \cup {r \o r : r \in ResultLists}

InitCombiner ==
  /\ marketData = EmptyMap
  /\ signals = EmptyMap
  /\ portfolio = ZeroPortfolio
  /\ riskParameters = DefaultRiskParameters
  /\ tradingEnabled = TRUE
  /\ claudeSet = TRUE
  /\ algorithms = << >>
  /\ configs = << >>
  /\ mu = Unlocked
  /\ loc = [t \in Threads |-> IdleFrame]
  /\ ret = NoRet
  /\ acc = {}
  /\ blocked = FALSE
  /\ lastStore = EmptyMap
  /\ stamp = NoStamp
  /\ calls = MaxCombineCalls

NextCombiner ==
  \/ \E t \in Callers, results \in CombinerInputs :
       combineResults(t, results)
  \/ \E t \in Callers, price \in MVOPrices, expectedReturn \in MVOReturns,
        risk \in MVORisks :
       MVOProcess(t, price, expectedReturn, risk)

SpecCombiner == InitCombiner /\ [][NextCombiner]_vars

\* ------------------------------------------------------------------ cross-validation folds
\* PurgedKFold and WalkForwardValidation.  A sample time is a whole number
\* of days, an index list a sequence of 0-based indices into the samples.
CVFold(trainIndices, testIndices, times) ==
  [TrainIndices |-> trainIndices, TestIndices |-> testIndices,
   TrainTimes |-> [j \in DOMAIN trainIndices |-> times[trainIndices[j] + 1]],
   TestTimes |-> [j \in DOMAIN testIndices |-> times[testIndices[j] + 1]]]
ErrNoSamples == "no sample times provided"
ErrInsufficientSamples == "insufficient samples"
PanicDivideByZero == "panic: runtime error: integer divide by zero"

\* int(math.Ceil(float64(n) * f)) for a fraction f.
CeilOf(n, f) == -((-(n * f.num)) \div f.den)

\* The members of a set of integers in increasing order (sort.Ints).
RECURSIVE SortInts(_)
SortInts(S) ==
  IF S = {} THEN << >>
  ELSE LET least == CHOOSE x \in S : \A y \in S : x <= y
       IN <<least>> \o SortInts(S \ {least})
Elems(seq) == {seq[j] : j \in DOMAIN seq}
\* The elements of a sequence that are in kept, in their order.
RECURSIVE Filter(_, _)
Filter(seq, kept) ==
  IF seq = << >> THEN << >>
  ELSE IF Head(seq) \in kept THEN <<Head(seq)>> \o Filter(Tail(seq), kept)
  ELSE Filter(Tail(seq), kept)

\* testIndices[i] of purgedKFold for fold i (from 0): testSize indices from
\* (i * testSize) % numSamples on, wrapping around past the last index.
FoldTestIndices(numSamples, testSize, i) ==
  LET start == (i * testSize) % numSamples
      end == start + testSize
  IN IF end > numSamples
     THEN SortInts((start..(numSamples - 1)) \cup (0..(end - numSamples - 1)))
     ELSE SortInts(start..(end - 1))

\* areTimesClose(t1, t2, 1): less than one day apart.
AreTimesClose(t1, t2) == Abs(t1 - t2) < 1

purgeTrainSamples(p, trainIndices, testIndices) ==
  LET shouldKeep(trainIdx) ==
        \A j \in DOMAIN testIndices :
          ~AreTimesClose(p.syncTimes[trainIdx + 1],
                         p.syncTimes[testIndices[j] + 1])
  IN Filter(trainIndices,
            {trainIdx \in Elems(trainIndices) : shouldKeep(trainIdx)})

embargoTrainSamples(p, trainIndices, testIndices) ==
  LET n == Len(p.syncTimes)
      ceil == CeilOf(n, p.embargoPct)
      embargoSize == IF ceil <= 0 THEN 1 ELSE ceil
      embargoZones == {testIndices[j] + i :
                         j \in DOMAIN testIndices, i \in 1..embargoSize}
                      \cap (0..(n - 1))
  IN IF p.embargoPct.num <= 0 THEN trainIndices
     ELSE Filter(trainIndices, Elems(trainIndices) \ embargoZones)

\* The folds of p.purgedKFold() for samples that are not empty.
purgedKFold(p) ==
  LET numSamples == Len(p.syncTimes)
      testSize == CeilOf(numSamples, p.testSize)
      fold(i) ==
        LET testIndices == FoldTestIndices(numSamples, testSize, i)
            complement == SortInts((0..(numSamples - 1)) \ Elems(testIndices))
            purged == purgeTrainSamples(p, complement, testIndices)
            trainIndices ==
              IF p.eventTimes # << >>
              THEN IF p.embargoPct.num > 0
                   THEN embargoTrainSamples(p, purged, testIndices)
                   ELSE purged
              ELSE complement
        IN CVFold(trainIndices, testIndices, p.syncTimes)
  IN [i \in 1..p.numFolds |-> fold(i - 1)]

\* PurgedKFold(samples, numFolds, embargoPct): the algorithm it builds has
\* the test size 1/numFolds and no event times.
PurgedKFold(t, samples, numFolds, embargoPct) ==
  /\ CanBegin(t)
  /\ calls' = calls - 1
  /\ acc' = {}
  /\ Return(t, [Ret("PurgedKFold",
                    IF samples = << >> THEN ErrNoSamples ELSE "") EXCEPT
                  !.args = <<samples, numFolds, embargoPct>>,
                  !.out = IF samples = << >> \/ numFolds = 0 THEN << >>
                          ELSE purgedKFold([numFolds |-> numFolds,
                                            embargoPct |-> embargoPct,
                                            testSize |-> Frac(1, numFolds),
                                            syncTimes |-> samples,
                                            eventTimes |-> << >>])])
  /\ UNCHANGED <<marketData, signals, portfolio, riskParameters,
                 tradingEnabled, claudeSet, algorithms, configs, mu, lastStore, stamp, blocked>>

\* The indices in the order of the input, as if the samples were not sorted.
InputOrder(samples) == {[i \in 1..Len(samples) |-> i - 1]}

\* The index orders sort.Slice may leave: increasing times, samples of equal
\* time in any order.
RECURSIVE OrdersOf(_, _)
OrdersOf(samples, indices) ==
  IF indices = {} THEN {<< >>}
  ELSE UNION {{<<first>> \o rest : rest \in OrdersOf(samples, indices \ {first})} :
                first \in {i \in indices :
                             \A j \in indices : samples[i + 1] <= samples[j + 1]}}
SortedOrders(samples) == OrdersOf(samples, 0..(Len(samples) - 1))

\* The folds of WalkForwardValidation over the sorted indices.
WalkForwardFolds(samples, sortedIndices, numFolds, embargoPct) ==
  LET foldSize == Len(sortedIndices) \div numFolds
      fold(i) ==
        LET testStart == i * foldSize
            testEnd == IF i = numFolds - 1 THEN Len(sortedIndices)
                       ELSE (i + 1) * foldSize
            testIndices == SubSeq(sortedIndices, testStart + 1, testEnd)
            before == SubSeq(sortedIndices, 1, testStart)
            embargoSize == CeilOf(Len(samples), embargoPct)
            trainIndices ==
              IF embargoPct.num > 0 /\ before # << >>
                 /\ embargoSize > 0 /\ testStart >= embargoSize
              THEN SubSeq(before, 1, testStart - embargoSize)
              ELSE before
        IN CVFold(trainIndices, testIndices, samples)
  IN [i \in 1..numFolds |-> fold(i - 1)]

WalkForwardValidation(t, samples, numFolds, embargoPct) ==
  /\ CanBegin(t)
  /\ calls' = calls - 1
  /\ acc' = {}
  /\ IF Len(samples) < numFolds * 2
     THEN Return(t, [Ret("WalkForwardValidation", ErrInsufficientSamples)
                       EXCEPT !.args = <<samples, numFolds, embargoPct>>])
     ELSE IF numFolds = 0
     THEN Return(t, [Ret("WalkForwardValidation", PanicDivideByZero)
                       EXCEPT !.args = <<samples, numFolds, embargoPct>>])
     ELSE \E sortedIndices \in SortedOrders(samples) :
            Return(t, [Ret("WalkForwardValidation", "") EXCEPT
                         !.args = <<samples, numFolds, embargoPct>>,
                         !.out = WalkForwardFolds(samples, sortedIndices,
                                                  numFolds, embargoPct)])
  /\ UNCHANGED <<marketData, signals, portfolio, riskParameters,
                 tradingEnabled, claudeSet, algorithms, configs, mu, lastStore, stamp, blocked>>

\* Samples, fold counts and embargo fractions.
MaxSamples == 4
MaxTime == 4
MaxFolds == 3
FoldSamples == UNION {[1..n -> 1..MaxTime] : n \in 0..MaxSamples}
EmbargoPcts == {Frac(-1, 10), Frac(0, 1), Frac(1, 4), Frac(9, 10)}

InitFolds ==
  /\ marketData = EmptyMap
  /\ signals = EmptyMap
  /\ portfolio = ZeroPortfolio
  /\ riskParameters = DefaultRiskParameters
  /\ tradingEnabled = TRUE
  /\ claudeSet = TRUE
  /\ algorithms = << >>
  /\ configs = << >>
  /\ mu = Unlocked
  /\ loc = [t \in Threads |-> IdleFrame]
  /\ ret = NoRet
  /\ acc = {}
  /\ blocked = FALSE
  /\ lastStore = EmptyMap
  /\ stamp = NoStamp
  /\ calls = 1

NextFolds ==
  \/ \E t \in Callers, samples \in FoldSamples, numFolds \in 0..MaxFolds,
        embargoPct \in EmbargoPcts :
       PurgedKFold(t, samples, numFolds, embargoPct)
  \/ \E t \in Callers, samples \in FoldSamples, numFolds \in 0..MaxFolds,
        embargoPct \in EmbargoPcts :
       WalkForwardValidation(t, samples, numFolds, embargoPct)

SpecFolds == InitFolds /\ [][NextFolds]_vars

\* ------------------------------------------------------------------ triple barrier
\* ApplyTripleBarrier.  A price and a barrier multiple are integers, the
\* volatility is a fraction, a time is a whole number of days; indices are
\* 0-based.
BarrierTypeUpper == "upper"
BarrierTypeLower == "lower"
BarrierTypeTime == "time"
BarrierLabelSell == -1
BarrierLabelHold == 0
BarrierLabelBuy == 1
BarrierResult(label, entryTime, entryPrice, exitTime, exitPrice, barrierHit) ==
  [Label |-> label, EntryTime |-> entryTime, EntryPrice |-> entryPrice,
   ExitTime |-> exitTime, ExitPrice |-> exitPrice, BarrierHit |-> barrierHit]
TripleBarrierConfig(profitTaking, stopLoss, timeHorizon) ==
  [ProfitTaking |-> profitTaking, StopLoss |-> stopLoss,
   TimeHorizon |-> timeHorizon]
ErrFewPrices == "need at least 2 price points"
ErrLengths == "prices and times must have the same length"
ErrVolatility == "volatility must be positive"

Min(a, b) == IF a < b THEN a ELSE b
\* currentPrice >= entryPrice * (1 + config.ProfitTaking * volatility)
AtUpperBarrier(currentPrice, entryPrice, volatility, config) ==
  currentPrice * volatility.den
    >= entryPrice * (volatility.den + config.ProfitTaking * volatility.num)
\* currentPrice <= entryPrice * (1 - config.StopLoss * volatility)
AtLowerBarrier(currentPrice, entryPrice, volatility, config) ==
  currentPrice * volatility.den
    <= entryPrice * (volatility.den - config.StopLoss * volatility.num)

\* The label an entry at index i starts with, from the move of the price
\* before it.
TrendLabel(prices, i) ==
  LET trend == IF i > 0 THEN prices[i + 1] - prices[i] ELSE 0 IN
  IF trend > 0 THEN BarrierLabelBuy
  ELSE IF trend < 0 THEN BarrierLabelSell
  ELSE BarrierLabelHold

\* The loop over j from the entry at i to the time barrier: the barrier hit,
\* the exit index and the label it leaves, which are "", 0 and the starting
\* label when it has nothing to visit.
RECURSIVE BarrierWalk(_, _, _, _, _, _, _)
BarrierWalk(prices, volatility, config, i, j, timeBarrierIdx, label) ==
  IF j > timeBarrierIdx
  THEN [hitBarrier |-> "", exitIdx |-> 0, label |-> label]
  ELSE LET currentPrice == prices[j + 1]
           entryPrice == prices[i + 1]
       IN IF AtUpperBarrier(currentPrice, entryPrice, volatility, config)
          THEN [hitBarrier |-> BarrierTypeUpper, exitIdx |-> j,
                label |-> IF label = BarrierLabelBuy THEN BarrierLabelBuy
                          ELSE BarrierLabelSell]
          ELSE IF AtLowerBarrier(currentPrice, entryPrice, volatility, config)
          THEN [hitBarrier |-> BarrierTypeLower, exitIdx |-> j,
                label |-> IF label = BarrierLabelBuy THEN BarrierLabelSell
                          ELSE BarrierLabelBuy]
          ELSE IF j = timeBarrierIdx
          THEN [hitBarrier |-> BarrierTypeTime, exitIdx |-> j,
                label |-> IF currentPrice > entryPrice THEN BarrierLabelBuy
                          ELSE IF currentPrice < entryPrice THEN BarrierLabelSell
                          ELSE BarrierLabelHold]
          ELSE BarrierWalk(prices, volatility, config, i, j + 1,
                           timeBarrierIdx, label)

\* The results of ApplyTripleBarrier for arguments it accepts, one for each
\* entry index but the last.
BarrierResults(prices, times, volatility, config) ==
  [n \in 1..(Len(prices) - 1) |->
     LET i == n - 1
         timeBarrierIdx == Min(i + config.TimeHorizon, Len(prices) - 1)
         walk == BarrierWalk(prices, volatility, config, i, i + 1,
                             timeBarrierIdx, TrendLabel(prices, i))
     IN BarrierResult(walk.label, times[i + 1], prices[i + 1],
                      times[walk.exitIdx + 1], prices[walk.exitIdx + 1],
                      walk.hitBarrier)]

ApplyTripleBarrier(t, prices, times, volatility, config) ==
  LET err == IF Len(prices) < 2 THEN ErrFewPrices
             ELSE IF Len(prices) # Len(times) THEN ErrLengths
             ELSE IF volatility.num <= 0 THEN ErrVolatility
             ELSE ""
  IN /\ CanBegin(t)
     /\ calls' = calls - 1
     /\ acc' = {}
     /\ Return(t, [Ret("ApplyTripleBarrier", err) EXCEPT
                     !.args = <<prices, times, volatility, config>>,
                     !.out = IF err # "" THEN << >>
                             ELSE BarrierResults(prices, times, volatility,
                                                 config)])
     /\ UNCHANGED <<marketData, signals, portfolio, riskParameters,
                    tradingEnabled, claudeSet, algorithms, configs, mu, lastStore, stamp, blocked>>

\* Price series over a few levels, and the rising and the falling series of
\* TestApplyTripleBarrier with its configuration; times a day apart.
MaxPrices == 4
MaxHorizon == 2
PriceLevels == {96, 100, 104}
Uptrend == <<100, 102, 104, 106, 108, 110>>
Downtrend == <<100, 98, 96, 94, 92, 90>>
PriceSeries ==
  UNION {[1..n -> PriceLevels] : n \in 0..MaxPrices} \cup {Uptrend, Downtrend}
DailyTimes(n) == [i \in 1..n |-> i]
BarrierVolatilities == {Frac(0, 1), Frac(1, 100)}
BarrierConfigs ==
  {TripleBarrierConfig(3, 2, timeHorizon) : timeHorizon \in 0..MaxHorizon}
  \cup {TripleBarrierConfig(3, 2, 5)}

InitBarrier ==
  /\ marketData = EmptyMap
  /\ signals = EmptyMap
  /\ portfolio = ZeroPortfolio
  /\ riskParameters = DefaultRiskParameters
  /\ tradingEnabled = TRUE
  /\ claudeSet = TRUE
  /\ algorithms = << >>
  /\ configs = << >>
  /\ mu = Unlocked
  /\ loc = [t \in Threads |-> IdleFrame]
  /\ ret = NoRet
  /\ acc = {}
  /\ blocked = FALSE
  /\ lastStore = EmptyMap
  /\ stamp = NoStamp
  /\ calls = 1

NextBarrier ==
  \E t \in Callers, prices \in PriceSeries,
     volatility \in BarrierVolatilities, config \in BarrierConfigs :
    \E times \in {DailyTimes(Len(prices)), DailyTimes(Len(prices) + 1)} :
      ApplyTripleBarrier(t, prices, times, volatility, config)

SpecBarrier == InitBarrier /\ [][NextBarrier]_vars
\* ================================================================== package algo: the registered algorithms
\* AlgorithmConfig is modelled by its AdditionalParams, a map from option
\* name to value; the other fields are read by none of the algorithms below.
\* Option values are exact fractions.
FracLeq(a, b) == ~FracLess(b, a)
\* int(val) of a float64 that is not negative.
IntOf(val) == val.num \div val.den
NilResult == [Signal |-> "nil"]
Failed(err) == [err |-> err, result |-> NilResult]
Succeeded(result) == [err |-> "", result |-> result]
Configured(alg, err) == [alg |-> alg, err |-> err]

AlgorithmTypeSequentialBootstrap == "sequential_bootstrap"
AlgorithmTypeMetaLabeling == "meta_labeling"
AlgorithmTypePositionSizing == "position_sizing"

\* ------------------------------------------------------------------ sequential bootstrap
\* The instance the registered factory returns: every field at its zero value.
NewSequentialBootstrap ==
  [config |-> EmptyMap, lookbackPeriod |-> 0, confidenceThreshold |-> Frac(0, 1),
   useSequential |-> FALSE, sampleSize |-> 0]

ErrLookbackPeriod == "lookback_period must be at least 1"
ErrConfidenceThreshold == "confidence_threshold must be between 0 and 1"
ErrSampleSize == "sample_size must be at least 1"

\* Configure stores the config, sets the defaults, then reads the options in
\* order and returns at the first invalid one.
SequentialBootstrapConfigure(s, config) ==
  LET s0 == [s EXCEPT !.config = config, !.lookbackPeriod = 20,
                      !.confidenceThreshold = Frac(65, 100),
                      !.useSequential = TRUE, !.sampleSize = 50]
      s1 == IF Has(config, "lookback_period")
            THEN [s0 EXCEPT !.lookbackPeriod = IntOf(config["lookback_period"])]
            ELSE s0
      s2 == IF Has(config, "confidence_threshold")
            THEN [s1 EXCEPT !.confidenceThreshold = config["confidence_threshold"]]
            ELSE s1
      s3 == IF Has(config, "use_sequential")
            THEN [s2 EXCEPT !.useSequential =
                              FracLess(Frac(1, 2), config["use_sequential"])]
            ELSE s2
      s4 == IF Has(config, "sample_size")
            THEN [s3 EXCEPT !.sampleSize = IntOf(config["sample_size"])]
            ELSE s3
  IN IF Has(config, "lookback_period")
        /\ FracLess(config["lookback_period"], Frac(1, 1))
     THEN Configured(s0, ErrLookbackPeriod)
     ELSE IF Has(config, "confidence_threshold")
             /\ (config["confidence_threshold"].num < 0
                 \/ FracLess(Frac(1, 1), config["confidence_threshold"]))
     THEN Configured(s1, ErrConfidenceThreshold)
     ELSE IF Has(config, "sample_size")
             /\ FracLess(config["sample_size"], Frac(1, 1))
     THEN Configured(s3, ErrSampleSize)
     ELSE Configured(s4, "")

ErrInsufficientHistory == "insufficient historical data"
ErrIndMatrix == "failed to create indicator matrix"
ErrSeqBootstrap == "sequential bootstrap failed"

\* historicalData[histLen-n:]
LastBars(historicalData, n) ==
  SubSeq(historicalData, Len(historicalData) - n + 1, Len(historicalData))

\* seqBootstrap and standardBootstrap: sLength <= 0 means the column count.
SampleLength(sLength, c) == IF sLength <= 0 THEN c ELSE sLength

\* What sLength random draws from the bars 0..c-1 can count.  A draw of the
\* last bar is skipped; a draw of an earlier bar counts up when the next
\* price is higher and down otherwise.  Every bar has a positive weight in
\* weightedChoice and rand.Intn can return every bar, so each draw can land
\* on any bar.
Draws(historicalData, sLength) ==
  LET c == Len(historicalData)
      upBars == {i \in 1..(c - 1) : historicalData[i + 1] > historicalData[i]}
      downBars == (1..(c - 1)) \ upBars
  IN {d \in [up : 0..sLength, down : 0..sLength] :
        /\ d.up + d.down <= sLength
        /\ d.up > 0 => upBars # {}
        /\ d.down > 0 => downBars # {}}

\* The signal from the counts, and the confidence threshold after it.
SequentialBootstrapResult(s, upSignals, downSignals) ==
  LET totalSignals == upSignals + downSignals
      confidence == IF totalSignals = 0 THEN Frac(1, 2)
                    ELSE IF upSignals > downSignals
                    THEN Frac(upSignals, totalSignals)
                    ELSE Frac(downSignals, totalSignals)
      signal == IF totalSignals = 0 THEN "HOLD"
                ELSE IF upSignals > downSignals THEN "BUY" ELSE "SELL"
  IN IF FracLess(confidence, s.confidenceThreshold) \/ signal = "HOLD"
     THEN AlgorithmResult("HOLD", "NONE", FALSE, 0, confidence)
     ELSE AlgorithmResult(signal, "MARKET", FALSE, 0, confidence)

\* SequentialBootstrapAlgorithm.Process: historicalData is the series of the
\* bars' prices.  The set holds one outcome per result the draws can give.
SequentialBootstrapProcess(s, historicalData) ==
  IF Len(historicalData) < s.lookbackPeriod
  THEN {Failed(ErrInsufficientHistory)}
  ELSE LET bars == IF Len(historicalData) > s.lookbackPeriod
                   THEN LastBars(historicalData, s.lookbackPeriod)
                   ELSE historicalData
           c == Len(bars)
       IN IF c = 0 THEN {Failed(ErrIndMatrix)}
          ELSE IF s.useSequential /\ SampleLength(s.sampleSize, c) > c
          THEN {Failed(ErrSeqBootstrap)}
          ELSE {Succeeded(SequentialBootstrapResult(s, d.up, d.down)) :
                  d \in Draws(bars, SampleLength(s.sampleSize, c))}

\* ------------------------------------------------------------------ the registry
\* algorithmRegistry after the package's init functions, as far as the
\* pipelines below look into it; the zero AlgorithmType "" is not in it.
Registry == {AlgorithmTypeSequentialBootstrap, AlgorithmTypeMetaLabeling,
             AlgorithmTypePositionSizing}

\* ------------------------------------------------------------------ meta-labeling
FeatureTypes == <<"price", "volume", "volatility", "technical">>
\* The number of values extractFeatures appends for a feature type.
FeatureWidth(f) ==
  CASE f = "price" -> 2 [] f = "volume" -> 1 [] f = "volatility" -> 2
    [] f = "technical" -> 3
RECURSIVE FeatureCount(_)
FeatureCount(features) ==
  IF features = << >> THEN 0
  ELSE FeatureWidth(Head(features)) + FeatureCount(Tail(features))

NewMetaLabeling ==
  [config |-> EmptyMap, confidenceThreshold |-> Frac(0, 1), features |-> << >>,
   modelType |-> "", primaryAlgorithm |-> "", weights |-> << >>,
   bias |-> Frac(0, 1)]

ErrNoFeatureType == "at least one feature type must be enabled"

\* m.removeFeature for an option that is present and <= 0.5.
RemoveFeature(features, config, option, featureType) ==
  IF Has(config, option) /\ FracLeq(config[option], Frac(1, 2))
  THEN SelectSeq(features, LAMBDA f : f # featureType)
  ELSE features

MetaLabelingConfigure(m, config) ==
  LET m0 == [m EXCEPT !.config = config, !.confidenceThreshold = Frac(6, 10),
                      !.features = FeatureTypes, !.modelType = "simple_rules",
                      !.primaryAlgorithm = AlgorithmTypeSequentialBootstrap]
      m1 == IF Has(config, "confidence_threshold")
            THEN [m0 EXCEPT !.confidenceThreshold = config["confidence_threshold"]]
            ELSE m0
      features ==
        RemoveFeature(
          RemoveFeature(
            RemoveFeature(
              RemoveFeature(m1.features, config, "use_price_features", "price"),
              config, "use_volume_features", "volume"),
            config, "use_volatility_features", "volatility"),
          config, "use_technical_features", "technical")
      m2 == [m1 EXCEPT !.features = features]
  IN IF Has(config, "confidence_threshold")
        /\ (config["confidence_threshold"].num < 0
            \/ FracLess(Frac(1, 1), config["confidence_threshold"]))
     THEN Configured(m0, ErrConfidenceThreshold)
     ELSE IF features = << >>
     THEN Configured(m2, ErrNoFeatureType)
     ELSE Configured([m2 EXCEPT !.weights = <<Frac(2, 10), Frac(2, 10),
                                              Frac(3, 10), Frac(3, 10)>>,
                                !.bias = Frac(-1, 10)], "")

ErrMetaHistory == "insufficient historical data for meta-labeling"
ErrCreatePrimary == "error creating primary algorithm"
ErrConfigurePrimary == "error configuring primary algorithm"
ErrProcessPrimary == "error processing primary algorithm"
ErrApplyMetaLabeling == "error applying meta-labeling"

\* The primary stage of both pipelines: Create, Configure(AlgorithmConfig{}),
\* Process.  Only the sequential bootstrap is ever named as the primary.
PrimaryStage(primaryAlgorithm, historicalData) ==
  IF primaryAlgorithm \notin Registry THEN {Failed(ErrCreatePrimary)}
  ELSE LET primaryAlg ==
             SequentialBootstrapConfigure(NewSequentialBootstrap, EmptyMap)
       IN IF primaryAlg.err # "" THEN {Failed(ErrConfigurePrimary)}
          ELSE {IF o.err # "" THEN Failed(ErrProcessPrimary) ELSE o :
                  o \in SequentialBootstrapProcess(primaryAlg.alg, historicalData)}

\* The values sigmoid(sum + bias) is drawn from: the weighted sum of the
\* normalised features is floating-point arithmetic over the whole history,
\* and only its place relative to the threshold is used.
MetaConfidences == {Frac(1, 4), Frac(3, 4)}

\* extractFeatures, applyMetaLabeling and the final signal.
MetaLabelingStage(m, primaryResult) ==
  IF FeatureCount(m.features) = 0 \/ Len(m.weights) < FeatureCount(m.features)
  THEN {Failed(ErrApplyMetaLabeling)}
  ELSE {IF FracLeq(m.confidenceThreshold, metaConfidence)
        THEN Succeeded(AlgorithmResult(primaryResult.Signal,
                                       primaryResult.OrderType, FALSE, 0,
                                       metaConfidence))
        ELSE Succeeded(AlgorithmResult("hold", "none", FALSE, 0, Frac(1, 2))) :
          metaConfidence \in MetaConfidences}

\* MetaLabelingAlgorithm.Process
MetaLabelingProcess(m, historicalData) ==
  IF Len(historicalData) < 10 THEN {Failed(ErrMetaHistory)}
  ELSE UNION {IF primary.err # "" THEN {primary}
              ELSE IF primary.result.Signal = "hold" THEN {primary}
              ELSE MetaLabelingStage(m, primary.result) :
                primary \in PrimaryStage(m.primaryAlgorithm, historicalData)}

\* ------------------------------------------------------------------ position sizing
NewPositionSizing ==
  [config |-> EmptyMap, maxSize |-> Frac(0, 1), riskFraction |-> Frac(0, 1),
   useVolAdjustment |-> FALSE, volLookback |-> 0, maxDrawdown |-> Frac(0, 1),
   primaryAlgorithm |-> "", metaLabeling |-> FALSE]

ErrMaxSize == "max_size must be between 0 and 1"
ErrRiskFraction == "risk_fraction must be between 0 and 1"
ErrVolLookback == "vol_lookback must be at least 1"
ErrMaxDrawdown == "max_drawdown must be between 0 and 0.5"

\* val <= 0 || val > hi
OutsideRange(val, hi) == val.num <= 0 \/ FracLess(hi, val)

PositionSizingConfigure(p, config) ==
  LET p0 == [p EXCEPT !.config = config, !.maxSize = Frac(2, 10),
                      !.riskFraction = Frac(3, 10), !.useVolAdjustment = TRUE,
                      !.volLookback = 20, !.maxDrawdown = Frac(1, 10),
                      !.primaryAlgorithm = AlgorithmTypeSequentialBootstrap,
                      !.metaLabeling = TRUE]
      p1 == IF Has(config, "max_size")
            THEN [p0 EXCEPT !.maxSize = config["max_size"]] ELSE p0
      p2 == IF Has(config, "risk_fraction")
            THEN [p1 EXCEPT !.riskFraction = config["risk_fraction"]] ELSE p1
      p3 == IF Has(config, "use_vol_adjustment")
            THEN [p2 EXCEPT !.useVolAdjustment =
                              FracLess(Frac(1, 2), config["use_vol_adjustment"])]
            ELSE p2
      p4 == IF Has(config, "vol_lookback")
            THEN [p3 EXCEPT !.volLookback = IntOf(config["vol_lookback"])]
            ELSE p3
      p5 == IF Has(config, "max_drawdown")
            THEN [p4 EXCEPT !.maxDrawdown = config["max_drawdown"]] ELSE p4
      p6 == IF Has(config, "use_meta_labeling")
            THEN [p5 EXCEPT !.metaLabeling =
                              FracLess(Frac(1, 2), config["use_meta_labeling"])]
            ELSE p5
  IN IF Has(config, "max_size") /\ OutsideRange(config["max_size"], Frac(1, 1))
     THEN Configured(p0, ErrMaxSize)
     ELSE IF Has(config, "risk_fraction")
             /\ OutsideRange(config["risk_fraction"], Frac(1, 1))
     THEN Configured(p1, ErrRiskFraction)
     ELSE IF Has(config, "vol_lookback")
             /\ FracLess(config["vol_lookback"], Frac(1, 1))
     THEN Configured(p3, ErrVolLookback)
     ELSE IF Has(config, "max_drawdown")
             /\ OutsideRange(config["max_drawdown"], Frac(1, 2))
     THEN Configured(p4, ErrMaxDrawdown)
     ELSE Configured(p6, "")

ErrProcessMetaLabeling == "error processing meta-labeling algorithm"
ErrPositionSize == "error calculating position size"

\* Steps 3 and 4: calculatePositionSize accepts only the signals "buy" and
\* "sell", a confidence in (0, 1] and a positive volatility; the standard
\* deviation of the log returns is positive unless they are all equal.
SizingStage(p, primaryResult, confidence, historicalData) ==
  LET flat == \A i, j \in 1..(Len(historicalData) - 1) :
                historicalData[i + 1] * historicalData[j]
                  = historicalData[j + 1] * historicalData[i]
  IN IF primaryResult.Signal \notin {"buy", "sell"}
        \/ confidence.num <= 0 \/ FracLess(Frac(1, 1), confidence) \/ flat
     THEN Failed(ErrPositionSize)
     ELSE Succeeded(AlgorithmResult(primaryResult.Signal,
                                    primaryResult.OrderType, FALSE, 0,
                                    confidence))

\* Step 2, for a primary result that is not "hold".
MetaStageOfSizing(p, primaryResult, historicalData) ==
  IF ~p.metaLabeling
  THEN {SizingStage(p, primaryResult, primaryResult.Confidence, historicalData)}
  ELSE LET metaLabelAlg == MetaLabelingConfigure(NewMetaLabeling, EmptyMap)
       IN {IF meta.err # "" THEN Failed(ErrProcessMetaLabeling)
           ELSE IF meta.result.Signal = "hold" THEN meta
           ELSE SizingStage(p, primaryResult, meta.result.Confidence,
                            historicalData) :
             meta \in MetaLabelingProcess(metaLabelAlg.alg, historicalData)}

\* PositionSizingAlgorithm.Process
PositionSizingProcess(p, historicalData) ==
  IF Len(historicalData) < p.volLookback THEN {Failed(ErrInsufficientHistory)}
  ELSE UNION {IF primary.err # "" THEN {primary}
              ELSE IF primary.result.Signal = "hold" THEN {primary}
              ELSE MetaStageOfSizing(p, primary.result, historicalData) :
                primary \in PrimaryStage(p.primaryAlgorithm, historicalData)}

\* ------------------------------------------------------------------ CUSUM filter
AlgorithmTypeCUSUMFilter == "cusum_filter"
\* A float64 that is not a number: every comparison with it is false and
\* every sum or maximum with it is NaN again.
NaN == [num |-> 0, den |-> 0]
IsNaN(x) == x.den = 0 /\ x.num = 0
FloatAdd(a, b) == IF IsNaN(a) \/ IsNaN(b) THEN NaN ELSE FracAdd(a, b)
\* math.Max(0, x)
MaxZero(x) == IF IsNaN(x) THEN NaN ELSE IF x.num < 0 THEN Frac(0, 1) ELSE x
\* a > b
FloatGreater(a, b) == ~IsNaN(a) /\ ~IsNaN(b) /\ FracLess(b, a)

NewCUSUMFilterAlgorithm ==
  [config |-> EmptyMap, threshold |-> Frac(1, 1), drift |-> Frac(2, 100),
   spPrev |-> Frac(0, 1), snPrev |-> Frac(0, 1)]

CUSUMConfigure(c, config) ==
  Configured([c EXCEPT !.config = config,
                       !.threshold = IF Has(config, "threshold")
                                     THEN config["threshold"] ELSE @,
                       !.drift = IF Has(config, "drift")
                                 THEN config["drift"] ELSE @], "")

ErrCusumHistory == "insufficient historical data for CUSUM analysis"

\* The root of a perfect square.
Isqrt(n) == CHOOSE k \in 0..n : k * k = n
\* (lastReturn - mean) / stddev for a price series whose n log returns are
\* all equal except, possibly, the last, which differs from them by d.  The
\* mean is then d/n away from the others, the population variance is
\* d^2 (n-1) / n^2, and the quotient is sign(d) * sqrt(n-1); with d = 0 (or a
\* single return) it is 0/0.  The series of the model are of this kind with
\* n - 1 a perfect square.
StandardizedReturn(prices) ==
  LET n == Len(prices) - 1
      rising == prices[n + 1] * prices[n - 1] > prices[n] * prices[n]
      falling == prices[n + 1] * prices[n - 1] < prices[n] * prices[n]
  IN IF n = 1 THEN NaN
     ELSE IF rising THEN Frac(Isqrt(n - 1), 1)
     ELSE IF falling THEN Frac(-Isqrt(n - 1), 1)
     ELSE NaN

\* math.Floor(targetPrice*100) / 100 for targetPrice = price * pct / 100
FloorCents(price, pct) == Frac(price * pct, 100)
\* math.Min(0.95, 0.5 + s/10)
CusumConfidence(s) == FracMin(Frac(95, 100), FracAdd(Frac(1, 2), FracMul(s, Frac(1, 10))))

\* The signal for the updated sums.
CUSUMResult(c, sp, sn, price) ==
  IF FloatGreater(sp, c.threshold)
  THEN AlgorithmResult("buy", "limit", TRUE, FloorCents(price, 99),
                       CusumConfidence(sp))
  ELSE IF FloatGreater(sn, c.threshold)
  THEN AlgorithmResult("sell", "limit", TRUE, FloorCents(price, 101),
                       CusumConfidence(sn))
  ELSE AlgorithmResult("hold", "market", FALSE, 0, Frac(1, 2))

\* CUSUMFilterAlgorithm.Process: the outcome and the instance after it.
CUSUMProcess(c, price, historicalData) ==
  IF Len(historicalData) < 2
  THEN [err |-> ErrCusumHistory, result |-> NilResult, alg |-> c]
  ELSE LET standardizedReturn == StandardizedReturn(historicalData)
           sp == MaxZero(FloatAdd(FloatAdd(c.spPrev, standardizedReturn),
                                  FracNeg(c.drift)))
           sn == MaxZero(FloatAdd(FloatAdd(c.snPrev,
                                           IF IsNaN(standardizedReturn) THEN NaN
                                           ELSE FracNeg(standardizedReturn)),
                                  FracNeg(c.drift)))
       IN [err |-> "", result |-> CUSUMResult(c, sp, sn, price),
           alg |-> [c EXCEPT !.spPrev = sp, !.snPrev = sn]]

\* A Process call on the CUSUM filter instance.
ProcessCUSUM(t, price, historicalData) ==
  /\ CanBegin(t)
  /\ calls' = calls - 1
  /\ acc' = {}
  /\ LET o == CUSUMProcess(algorithms[AlgorithmTypeCUSUMFilter], price,
                           historicalData) IN
     /\ algorithms' = MapPut(algorithms, AlgorithmTypeCUSUMFilter, o.alg)
     /\ Return(t, [Ret("Process", o.err)
                     EXCEPT !.args = <<AlgorithmTypeCUSUMFilter, historicalData, price>>,
                            !.out = <<o.result>>])
  /\ UNCHANGED <<marketData, signals, portfolio, riskParameters,
                 tradingEnabled, claudeSet, configs, mu, lastStore, stamp, blocked>>

\* ------------------------------------------------------------------ the algorithm manager
\* NewAlgorithmManager's defaultConfig: none of its options is read by the
\* three algorithms above.
DefaultConfig == [o \in {"view_confidence", "min_sharpe"} |-> Frac(1, 2)]
ErrNotRegistered == "algorithm type not registered"

NewAlgorithm(algType) ==
  CASE algType = AlgorithmTypeSequentialBootstrap -> NewSequentialBootstrap
    [] algType = AlgorithmTypeMetaLabeling -> NewMetaLabeling
    [] algType = AlgorithmTypePositionSizing -> NewPositionSizing
    [] algType = AlgorithmTypeCUSUMFilter -> NewCUSUMFilterAlgorithm
\* alg.Configure(config), dispatched on the instance's type.
ConfigureOf(algType, alg, config) ==
  CASE algType = AlgorithmTypeSequentialBootstrap
         -> SequentialBootstrapConfigure(alg, config)
    [] algType = AlgorithmTypeMetaLabeling -> MetaLabelingConfigure(alg, config)
    [] algType = AlgorithmTypePositionSizing
         -> PositionSizingConfigure(alg, config)
    [] algType = AlgorithmTypeCUSUMFilter -> CUSUMConfigure(alg, config)
\* alg.Process(symbol, currentData, historicalData)
ProcessOf(algType, alg, historicalData) ==
  CASE algType = AlgorithmTypeSequentialBootstrap
         -> SequentialBootstrapProcess(alg, historicalData)
    [] algType = AlgorithmTypeMetaLabeling
         -> MetaLabelingProcess(alg, historicalData)
    [] algType = AlgorithmTypePositionSizing
         -> PositionSizingProcess(alg, historicalData)

\* am.ConfigureAlgorithm(algType, config), under am.mu: the configuration is
\* stored, then the algorithm is configured and its error returned.
ConfigureAlgorithm(t, algType, config) ==
  /\ CanBegin(t)
  /\ calls' = calls - 1
  /\ acc' = {}
  /\ IF ~Has(algorithms, algType)
     THEN /\ UNCHANGED <<algorithms, configs>>
          /\ Return(t, [Ret("ConfigureAlgorithm", ErrNotRegistered)
                          EXCEPT !.args = <<algType, config>>])
     ELSE LET c == ConfigureOf(algType, algorithms[algType], config) IN
          /\ configs' = MapPut(configs, algType, config)
          /\ algorithms' = MapPut(algorithms, algType, c.alg)
          /\ Return(t, [Ret("ConfigureAlgorithm", c.err)
                          EXCEPT !.args = <<algType, config>>])
  /\ UNCHANGED <<marketData, signals, portfolio, riskParameters,
                 tradingEnabled, claudeSet, mu, lastStore, stamp, blocked>>

\* alg.Configure(config) on the instance GetAlgorithm(algType) returned.
Configure(t, algType, config) ==
  /\ CanBegin(t)
  /\ Has(algorithms, algType)
  /\ calls' = calls - 1
  /\ acc' = {}
  /\ LET c == ConfigureOf(algType, algorithms[algType], config) IN
     /\ algorithms' = MapPut(algorithms, algType, c.alg)
     /\ Return(t, [Ret("Configure", c.err) EXCEPT !.args = <<algType, config>>])
  /\ UNCHANGED <<marketData, signals, portfolio, riskParameters,
                 tradingEnabled, claudeSet, configs, mu, lastStore, stamp, blocked>>

\* alg.Process(symbol, currentData, historicalData) on the instance
\* GetAlgorithm(algType) returned.
Process(t, algType, historicalData) ==
  /\ CanBegin(t)
  /\ Has(algorithms, algType)
  /\ calls' = calls - 1
  /\ acc' = {}
  /\ \E o \in ProcessOf(algType, algorithms[algType], historicalData) :
       Return(t, [Ret("Process", o.err)
                    EXCEPT !.args = <<algType, historicalData>>,
                           !.out = <<o.result>>])
  /\ UNCHANGED <<marketData, signals, portfolio, riskParameters,
                 tradingEnabled, claudeSet, algorithms, configs, mu, lastStore, stamp,
                 blocked>>

\* ------------------------------------------------------------------ inputs
MaxAlgorithmCalls == 2
MaxBars == 3
\* The configurations over the given options: each option absent or at one of
\* its values.
ConfigsOver(values) ==
  UNION {[D -> UNION {values[o] : o \in D}] : D \in SUBSET DOMAIN values}
ValidFor(values, config) == \A o \in DOMAIN config : config[o] \in values[o]
AlgorithmConfigs(values) ==
  {config \in ConfigsOver(values) : ValidFor(values, config)}

SequentialBootstrapOptions ==
  [lookback_period |-> {Frac(0, 1), Frac(2, 1)},
   confidence_threshold |-> {Frac(3, 2)},
   use_sequential |-> {Frac(0, 1)},
   sample_size |-> {Frac(0, 1), Frac(1, 1), Frac(3, 1)}]
MetaLabelingOptions ==
  [confidence_threshold |-> {Frac(3, 2), Frac(1, 2)},
   use_price_features |-> {Frac(0, 1)},
   use_volume_features |-> {Frac(0, 1)},
   use_volatility_features |-> {Frac(0, 1)},
   use_technical_features |-> {Frac(0, 1)}]
PositionSizingOptions ==
  [max_size |-> {Frac(0, 1), Frac(1, 2)},
   risk_fraction |-> {Frac(2, 1)},
   vol_lookback |-> {Frac(0, 1), Frac(3, 1)},
   max_drawdown |-> {Frac(3, 5)},
   use_meta_labeling |-> {Frac(0, 1)}]
OptionsOf(algType) ==
  CASE algType = AlgorithmTypeSequentialBootstrap -> SequentialBootstrapOptions
    [] algType = AlgorithmTypeMetaLabeling -> MetaLabelingOptions
    [] algType = AlgorithmTypePositionSizing -> PositionSizingOptions

\* Price series: every short one over two levels, and two long ones that
\* alternate between them.
Alternating(n) == [i \in 1..n |-> IF i % 2 = 0 THEN 104 ELSE 100]
Histories ==
  UNION {[1..n -> {100, 104}] : n \in 0..MaxBars}
    \cup {Alternating(20), Alternating(21)}

\* The state NewClaudeAlgorithmAdapter leaves: every algorithm of the registry
\* created and registered, which configures it with the default config.
InitAlgorithms ==
  /\ marketData = EmptyMap
  /\ signals = EmptyMap
  /\ portfolio = ZeroPortfolio
  /\ riskParameters = DefaultRiskParameters
  /\ tradingEnabled = TRUE
  /\ claudeSet = TRUE
  /\ algorithms = [a \in Registry |->
                     ConfigureOf(a, NewAlgorithm(a), DefaultConfig).alg]
  /\ configs = [a \in Registry |-> DefaultConfig]
  /\ mu = Unlocked
  /\ loc = [t \in Threads |-> IdleFrame]
  /\ ret = NoRet
  /\ acc = {}
  /\ blocked = FALSE
  /\ lastStore = EmptyMap
  /\ stamp = NoStamp
  /\ calls = MaxAlgorithmCalls

NextBootstrap ==
  \/ \E t \in Callers :
       \E config \in AlgorithmConfigs(SequentialBootstrapOptions) :
         Configure(t, AlgorithmTypeSequentialBootstrap, config)
  \/ \E t \in Callers, historicalData \in Histories :
       Process(t, AlgorithmTypeSequentialBootstrap, historicalData)

SpecBootstrap == InitAlgorithms /\ [][NextBootstrap]_vars

Pipelines == {AlgorithmTypeMetaLabeling, AlgorithmTypePositionSizing}
NextPipeline ==
  \/ \E t \in Callers, algType \in Pipelines :
       \E config \in AlgorithmConfigs(OptionsOf(algType)) :
         ConfigureAlgorithm(t, algType, config)
  \/ \E t \in Callers, algType \in Pipelines :
       \E config \in AlgorithmConfigs(OptionsOf(algType)) :
         Configure(t, algType, config)
  \/ \E t \in Callers, algType \in Pipelines, historicalData \in Histories :
       Process(t, algType, historicalData)

SpecPipeline == InitAlgorithms /\ [][NextPipeline]_vars

\* ------------------------------------------------------------------ CUSUM inputs
MaxCusumCalls == 3
CusumOptions == [threshold |-> {Frac(1, 2)}, drift |-> {Frac(0, 1)}]
\* Series with equal returns before the last one: three bars, six bars that
\* are flat and then move, and one too short.
CusumHistories ==
  [1..3 -> {100, 104}]
    \cup {<<100, 100, 100, 100, 100, 104>>, <<100, 100, 100, 100, 100, 96>>,
          <<100>>}
\* The quote passed with every call (data.Price).
CusumPrices == {100}

\* One instance, as NewCUSUMFilterAlgorithm returns it.
InitCusum ==
  /\ marketData = EmptyMap
  /\ signals = EmptyMap
  /\ portfolio = ZeroPortfolio
  /\ riskParameters = DefaultRiskParameters
  /\ tradingEnabled = TRUE
  /\ claudeSet = TRUE
  /\ algorithms = [a \in {AlgorithmTypeCUSUMFilter} |-> NewCUSUMFilterAlgorithm]
  /\ configs = << >>
  /\ mu = Unlocked
  /\ loc = [t \in Threads |-> IdleFrame]
  /\ ret = NoRet
  /\ acc = {}
  /\ blocked = FALSE
  /\ lastStore = EmptyMap
  /\ stamp = NoStamp
  /\ calls = MaxCusumCalls

NextCusum ==
  \/ \E t \in Callers, config \in AlgorithmConfigs(CusumOptions) :
       Configure(t, AlgorithmTypeCUSUMFilter, config)
  \/ \E t \in Callers, price \in CusumPrices, historicalData \in CusumHistories :
       ProcessCUSUM(t, price, historicalData)

SpecCusum == InitCusum /\ [][NextCusum]_vars

\* ------------------------------------------------------------------ HRP, MVO and Entropy Pooling on a price series
AlgorithmTypeHRP == "hrp"
AlgorithmTypeMVO == "mvo"
AlgorithmTypeEntropyPooling == "entropy_pooling"
ErrNilData == "market data is nil"
\* make([]float64, n) with n < 0
PanicMakeSlice == "panic: runtime error: makeslice: len out of range"

\* float64 division, with x/0 = +Inf, -Inf or NaN.  An infinity is a
\* fraction with den = 0 and num = 1 or -1.
FloatDiv(a, b) ==
  IF IsNaN(a) \/ IsNaN(b) THEN NaN
  ELSE IF b.num = 0
  THEN [num |-> IF a.num > 0 THEN 1 ELSE IF a.num < 0 THEN -1 ELSE 0, den |-> 0]
  ELSE IF b.num > 0 THEN Frac(a.num * b.den, a.den * b.num)
  ELSE Frac(-(a.num * b.den), a.den * (-b.num))
\* math.Min and math.Abs
FloatMin(a, b) ==
  IF IsNaN(a) \/ IsNaN(b) THEN NaN ELSE IF FracLess(b, a) THEN b ELSE a
FloatAbs(a) == IF a.num < 0 THEN FracNeg(a) ELSE a

\* returns[i-1] = (prices[i] - prices[i-1]) / prices[i-1]
Returns(prices) ==
  [i \in 1..(Len(prices) - 1) |-> Frac(prices[i + 1] - prices[i], prices[i])]
RECURSIVE FracSum(_)
FracSum(values) ==
  IF values = << >> THEN Frac(0, 1)
  ELSE FracAdd(Head(values), FracSum(Tail(values)))
mean(values) ==
  IF Len(values) = 0 THEN Frac(0, 1)
  ELSE FracMul(FracSum(values), Frac(1, Len(values)))
\* The sample standard deviation; for two values or more the variance has to
\* have an exact root.
standardDeviation(values) ==
  IF Len(values) < 2 THEN Frac(0, 1)
  ELSE LET m == mean(values)
           squares == [i \in DOMAIN values |->
                         FracMul(FracAdd(values[i], FracNeg(m)),
                                 FracAdd(values[i], FracNeg(m)))]
           variance == FracMul(FracSum(squares), Frac(1, Len(values) - 1))
       IN Frac(Isqrt(variance.num), Isqrt(variance.den))

HoldForLackOfData ==
  AlgorithmResult(SignalHold, "market", FALSE, Frac(0, 1), Frac(1, 2))

\* HRPAlgorithm.Process once the returns are there.
HRPResult(price, returns) ==
  LET meanReturn == mean(returns)
      volatility == standardDeviation(returns)
      sharpeRatio == FloatDiv(meanReturn, volatility)
  IN IF Len(returns) = 0 THEN HoldForLackOfData
     ELSE IF FloatGreater(sharpeRatio, Frac(1, 2))
     THEN AlgorithmResult(SignalBuy, "limit", TRUE, Frac(price * 99, 100),
            FloatAdd(Frac(7, 10),
                     FloatMin(Frac(3, 10), FloatDiv(sharpeRatio, Frac(10, 1)))))
     ELSE IF FloatGreater(sharpeRatio, Frac(0, 1))
     THEN AlgorithmResult(SignalHold, "market", FALSE, Frac(0, 1), Frac(6, 10))
     ELSE AlgorithmResult(SignalSell, "market", FALSE, Frac(0, 1),
            FloatAdd(Frac(6, 10),
                     FloatMin(Frac(3, 10),
                              FloatDiv(FloatAbs(sharpeRatio), Frac(5, 1)))))

\* EntropyPoolingAlgorithm.Process once the returns are there, with the
\* default view confidence of 0.5.
EntropyPoolingResult(price, prices, returns) ==
  LET meanReturn == mean(returns)
      volatility == standardDeviation(returns)
      shortTermReturns == IF Len(returns) > 10
                          THEN SubSeq(returns, Len(returns) - 9, Len(returns))
                          ELSE returns
      shortTermMean == mean(shortTermReturns)
      shortTermVol == standardDeviation(shortTermReturns)
      volatilityTrend == FloatDiv(shortTermVol, volatility)
      momentum == IF Len(prices) >= 2
                  THEN Frac(prices[Len(prices)] - prices[1], prices[1])
                  ELSE Frac(0, 1)
      adjustedReturn == FracAdd(FracMul(meanReturn, Frac(1, 2)),
                                FracMul(shortTermMean, Frac(1, 2)))
  IN IF Len(returns) = 0 THEN HoldForLackOfData
     ELSE IF /\ adjustedReturn.num > 0 /\ momentum.num > 0
             /\ ~IsNaN(volatilityTrend)
             /\ FracLeq(volatilityTrend, Frac(11, 10))
     THEN AlgorithmResult(SignalBuy, "limit", TRUE, Frac(price * 99, 100),
            FracAdd(Frac(65, 100), FracMin(Frac(3, 10), momentum)))
     ELSE IF adjustedReturn.num > 0 /\ FloatGreater(volatilityTrend, Frac(11, 10))
     THEN AlgorithmResult(SignalHold, "market", FALSE, Frac(0, 1), Frac(6, 10))
     ELSE IF adjustedReturn.num < 0 /\ momentum.num < 0
     THEN AlgorithmResult(SignalSell, "market", FALSE, Frac(0, 1),
            FracAdd(Frac(7, 10), FracMin(Frac(2, 10), FloatAbs(momentum))))
     ELSE HoldForLackOfData

\* Process of the three algorithms: the nil check, the two slices, the
\* decision.  historicalData is the series of the bars' prices.
PortfolioProcess(algType, dataIsNil, price, historicalData) ==
  IF dataIsNil THEN Failed(ErrNilData)
  ELSE IF Len(historicalData) - 1 < 0 THEN Failed(PanicMakeSlice)
  ELSE LET returns == Returns(historicalData)
       IN Succeeded(
            CASE algType = AlgorithmTypeHRP -> HRPResult(price, returns)
              [] algType = AlgorithmTypeMVO
                   -> IF Len(returns) = 0 THEN HoldForLackOfData
                      ELSE MVOResult(price, mean(returns),
                                     standardDeviation(returns))
              [] algType = AlgorithmTypeEntropyPooling
                   -> EntropyPoolingResult(price, historicalData, returns))

ProcessPortfolio(t, algType, dataIsNil, price, historicalData) ==
  /\ CanBegin(t)
  /\ calls' = calls - 1
  /\ acc' = {}
  /\ LET o == PortfolioProcess(algType, dataIsNil, price, historicalData) IN
     Return(t, [Ret("Process", o.err)
                  EXCEPT !.args = <<algType, historicalData, dataIsNil, price>>,
                         !.out = <<o.result>>])
  /\ UNCHANGED <<marketData, signals, portfolio, riskParameters,
                 tradingEnabled, claudeSet, algorithms, configs, mu, lastStore, stamp,
                 blocked>>

\* Series with at most one return, so that no standard deviation other than
\* the 0 of fewer than two values is needed.
PortfolioHistories == UNION {[1..n -> {96, 100, 104}] : n \in 0..2}
PortfolioAlgorithms ==
  {AlgorithmTypeHRP, AlgorithmTypeMVO, AlgorithmTypeEntropyPooling}

InitPortfolio ==
  /\ marketData = EmptyMap
  /\ signals = EmptyMap
  /\ portfolio = ZeroPortfolio
  /\ riskParameters = DefaultRiskParameters
  /\ tradingEnabled = TRUE
  /\ claudeSet = TRUE
  /\ algorithms = << >>
  /\ configs = << >>
  /\ mu = Unlocked
  /\ loc = [t \in Threads |-> IdleFrame]
  /\ ret = NoRet
  /\ acc = {}
  /\ blocked = FALSE
  /\ lastStore = EmptyMap
  /\ stamp = NoStamp
  /\ calls = 1

NextPortfolio ==
  \E t \in Callers, algType \in PortfolioAlgorithms, dataIsNil \in BOOLEAN,
     price \in MVOPrices, historicalData \in PortfolioHistories :
    ProcessPortfolio(t, algType, dataIsNil, price, historicalData)

SpecPortfolio == InitPortfolio /\ [][NextPortfolio]_vars

\* ------------------------------------------------------------------ a session by one caller
\* Start, Stop, UpdateMarketData and ProcessSymbol called one after another
\* by a single goroutine, so that what a call leaves behind is its own doing.
Caller == {1}
NextSession ==
  \/ \E t \in Caller, syms \in SymbolLists : StartLock(t, syms)
  \/ \E t \in Caller : StartReset(t)
  \/ \E t \in Caller : StartSeed(t)
  \/ \E t \in Caller : StartGetAccount(t)
  \/ \E t \in Caller : StartGetPositions(t)
  \/ \E t \in Caller : StartPfLock(t)
  \/ \E t \in Caller : StartPfWrite(t)
  \/ \E t \in Caller : StartEnable(t)
  \/ \E t \in Caller : StopLock(t)
  \/ \E t \in Caller : StopDisable(t)
  \/ \E t \in Caller, s \in Symbols, p \in Prices : UpdateMarketDataLock(t, s, p, 0)
  \/ \E t \in Caller : UpdateMarketDataWrite(t)
  \/ \E t \in Caller, s \in Symbols : ProcessSymbolGate(t, s)
  \/ \E t \in Caller : ProcessSymbolStoreLock(t)
  \/ \E t \in Caller : ProcessSymbolStore(t)
  \/ \E t \in Caller : ProcessSymbolRLock(t)
  \/ \E t \in Caller : ProcessSymbolRead(t)
  \/ \E t \in Caller : ProcessSymbolGenerate(t)

\* A coordinator as NewTradingAlgorithm returns it, with or without a
\* provider, every symbol watched.
InitSession ==
  /\ marketData = EmptyMap
  /\ signals = EmptyMap
  /\ portfolio = ZeroPortfolio
  /\ riskParameters = DefaultRiskParameters
  /\ tradingEnabled = FALSE
  /\ claudeSet \in BOOLEAN
  /\ algorithms = << >>
  /\ configs = << >>
  /\ mu = Unlocked
  /\ loc = [t \in Threads |-> IdleFrame]
  /\ ret = NoRet
  /\ acc = {}
  /\ blocked = FALSE
  /\ lastStore = EmptyMap
  /\ stamp = NewStamp
  /\ calls = MaxCalls

SpecSession == InitSession /\ [][NextSession]_vars

\* ------------------------------------------------------------------ a running session
\* ProcessSymbol calls overlapping UpdateMarketData calls on a session that
\* Start(["A"]) and a first update of A to half the price of the updates to
\* come have set running: one seed and one update of A have been written, no
\* signal is stored.
RunningStamp == [NewStamp EXCEPT !.written["A"] = 2]
RunningPrices == {p \div 2 : p \in Prices}
InitRunning ==
  /\ marketData \in {MapPut(EmptyMap, "A", MarketData("A", p, 0)) : p \in RunningPrices}
  /\ signals = EmptyMap
  /\ portfolio = NewPortfolio([Cash |-> 4000, Equity |-> 10000, LastEquity |-> 10000], << >>)
  /\ riskParameters = DefaultRiskParameters
  /\ tradingEnabled = TRUE
  /\ claudeSet = TRUE
  /\ algorithms = << >>
  /\ configs = << >>
  /\ mu = Unlocked
  /\ loc = [t \in Threads |-> IdleFrame]
  /\ ret = NoRet
  /\ acc = {}
  /\ blocked = FALSE
  /\ lastStore = EmptyMap
  /\ stamp = RunningStamp
  /\ calls = MaxCalls

NextRunning ==
  \/ \E t \in Threads, s \in Symbols, p \in Prices : UpdateMarketDataLock(t, s, p, 0)
  \/ \E t \in Threads : UpdateMarketDataWrite(t)
  \/ \E t \in Threads, s \in Symbols : ProcessSymbolGate(t, s)
  \/ \E t \in Threads : ProcessSymbolStoreLock(t)
  \/ \E t \in Threads : ProcessSymbolStore(t)
  \/ \E t \in Threads : ProcessSymbolRLock(t)
  \/ \E t \in Threads : ProcessSymbolRead(t)
  \/ \E t \in Threads : ProcessSymbolGenerate(t)

SpecRunning == InitRunning /\ [][NextRunning]_vars

\* ================================================================== claims

\* C1 (as claimed): once a Stop has returned, a ProcessSymbol call that begins
\* afterwards refuses until a Start that began after that Stop has succeeded;
\* so no ProcessSymbol call that began while blocked is ever past its gate.
C1_StopBlocksProcessSymbol ==
  \A t \in Threads : loc[t].op = "ProcessSymbol" => ~loc[t].mustRefuse

\* C2 (as claimed): every read or write of marketData, signals, portfolio,
\* riskParameters and tradingEnabled by a public operation is made with the
\* lock held, a write with the write lock: no step makes an access without it.
C2_AllAccessUnderLock == acc = {}

\* C3: the signals map holds, per symbol, exactly the signal of the last
\* store since the last reset, whole as the provider or the coordinator made
\* it, and GetSignal and GetAllSignals return just that (nil when there is
\* none).
C3_ReadersSeeLastStore ==
  /\ [](/\ signals = lastStore
        /\ \A s \in DOMAIN signals :
             signals[s] \in ProviderSignals \cup {SkippedSignal(s)})
  /\ [][/\ ret'.op = "GetSignal" => ret'.sig = Lookup(lastStore, ret'.sym)
        /\ ret'.op = "GetAllSignals" => ret'.sigs = lastStore]_vars

\* C3's case: GetSignal has just returned a stored signal.
C3_Witness == ret.op = "GetSignal" /\ ret.sig # NilSignal

\* What C4 calls an unknown key or an invalid value: a key outside the five
\* parameters, a value that is no number or not positive, a trade count that
\* is not whole.
C4_Invalid(k, v) ==
  \/ k \notin PercentKeys \cup {TradesKey}
  \/ v.type \notin {"float64", "int"}
  \/ v.num <= 0
  \/ k = TradesKey /\ v.num % v.den # 0

\* C4: an UpdateRiskParameters call whose map has an unknown key or an
\* invalid value returns an error and leaves the stored risk parameters as
\* they were, in whatever order the keys are visited.
C4_AllOrNothing ==
  [][\A t \in Threads :
       At(t, "UpdateRiskParameters", "update") /\ loc'[t] = IdleFrame
       /\ (\E k \in DOMAIN loc[t].params : C4_Invalid(k, loc[t].params[k]))
         => /\ ret'.op = "UpdateRiskParameters" /\ ret'.err # ""
            /\ riskParameters' = riskParameters]_vars

\* C4's case: a call has just failed whose map also held a valid entry that
\* would have changed the stored value.
C4_Witness ==
  /\ ret.op = "UpdateRiskParameters" /\ ret.err # ""
  /\ \E k \in DOMAIN ret.params :
       /\ ~C4_Invalid(k, ret.params[k])
       /\ CoerceParam(k, ret.params[k]) # riskParameters[k]

\* C5 (as claimed): every entry signals[S] has Symbol = S.
C5_StoredSymbolIsKey == \A s \in DOMAIN signals : signals[s].Symbol = s

C8_Bought(t) ==
  /\ At(t, "ExecuteTrade", "trade")
  /\ loc[t].sig.Signal = SignalBuy
  /\ ~(/\ Has(loc[t].pf.Positions, loc[t].sym)
       /\ loc[t].pf.Positions[loc[t].sym].Quantity > 0)
C8_Percent == riskParameters["max_position_size_percent"]

\* C8 (as claimed): such a buy issues one buy order of
\* floor(totalValue * max_position_size_percent / 100 / price) shares, that
\* is, of the q with q * price <= totalValue * percent / 100 < (q + 1) * price.
C8_QuantityIsFloorByPrice ==
  [][\A t \in Threads : C8_Bought(t) /\ loc'[t] = IdleFrame =>
       /\ ret'.err = "" /\ ret'.order.issued /\ ret'.order.side = "buy"
       /\ ret'.order.qty * loc[t].md.Price * 100 * C8_Percent.den
            <= loc[t].pf.TotalValue * C8_Percent.num
       /\ loc[t].pf.TotalValue * C8_Percent.num
            < (ret'.order.qty + 1) * loc[t].md.Price * 100 * C8_Percent.den]_vars

\* C8 (amended): such a buy issues one buy order for the symbol whose
\* quantity is totalValue * max_position_size_percent / 100 / p cut to a whole
\* number toward zero, where p is the market price it read if that is
\* positive and 1 otherwise, and the percentage is the stored one when the
\* order is priced.
C8_QuantityIsTruncatedQuotient ==
  [][\A t \in Threads : C8_Bought(t) /\ loc'[t] = IdleFrame =>
       LET p == IF loc[t].md.Price > 0 THEN loc[t].md.Price ELSE 1
           n == loc[t].pf.TotalValue * C8_Percent.num
           d == p * 100 * C8_Percent.den
           q == ret'.order.qty
       IN /\ ret'.err = "" /\ ret'.order.issued /\ ret'.order.side = "buy"
          /\ ret'.order.symbol = loc[t].sym
          /\ C8_Percent.type = "float64"
          /\ IF n >= 0 THEN q * d <= n /\ n < (q + 1) * d
             ELSE (q - 1) * d < n /\ n <= q * d]_vars

\* C8's case: the buy of the example, 10000 at 5 percent and a price of 100,
\* has just been issued for 5 shares.
C8_Witness ==
  /\ ret.op = "ExecuteTrade" /\ ret.order.issued /\ ret.order.side = "buy"
  /\ ret.pf.TotalValue = 10000 /\ ret.md.Price = 100
  /\ ret.rp["max_position_size_percent"] = RV("float64", 5, 1)
  /\ ret.order.qty = 5

\* C9: the snapshot changes only in the commit of a refresh whose two broker
\* calls succeeded; a refresh whose broker call fails returns the error and
\* leaves the snapshot as it was.
C9_FailedRefreshKeepsSnapshot ==
  [][/\ portfolio' # portfolio
          => \E t \in Threads : At(t, "Start", "pf_write") /\ loc'[t].pc = "enable"
     /\ \A t \in Threads :
          loc[t].op = "Start" /\ loc[t].pc \in {"account", "positions"}
          /\ loc'[t] = IdleFrame
            => /\ ret' = [Ret("Start", ErrPortfolio) EXCEPT
                              !.t = t, !.before = loc[t].before]
               /\ portfolio' = portfolio]_vars

\* C9's case: a refresh has just failed over a snapshot that an earlier
\* refresh had filled.
C9_Witness ==
  ret.op = "Start" /\ ret.err = ErrPortfolio /\ portfolio # ZeroPortfolio
\* C10 (as claimed): every limit order handed to the broker carries a limit
\* price within [0.70, 1.05] times the market price for a buy, within
\* [0.70, 1.30] times it for a sell.
C10_LimitPriceInBand ==
  ret.op \in {"executeBuyOrder", "executeSellOrder"}
  /\ ret.order.issued /\ ret.order.type = "limit"
    => /\ 70 * ret.md.Price <= 100 * ret.order.limitPrice
       /\ 100 * ret.order.limitPrice
            <= (IF ret.order.side = "buy" THEN 105 ELSE 130) * ret.md.Price
\* The tag of maximal weight that comes first in the results.
C11_FirstMax(results) ==
  LET w(i) == Weight(results, results[i].Signal)
      first == CHOOSE i \in DOMAIN results :
                 /\ \A j \in DOMAIN results : ~FracLess(w(i), w(j))
                 /\ \A j \in 1..(i - 1) : FracLess(w(j), w(i))
  IN results[first].Signal
\* C11 (as claimed): the combined signal of two results or more is the tag
\* of maximal normalized weight, the one met first in the results among tags
\* of equal weight (turned into hold when buy and sell are close), so that
\* the results determine the combined signal.
C11_TieGoesToFirstEncountered ==
  ret.op = "combineResults" /\ ret.err = "" /\ Len(ret.args) >= 2
    => ret.out.Signal =
         IF BuySellClose(ret.args)
            /\ C11_FirstMax(ret.args) \in {SignalBuy, SignalSell}
         THEN SignalHold ELSE C11_FirstMax(ret.args)
\* C12 (as claimed): every result that MVO's Process or the combiner returns
\* has a confidence within [0, 1].
C12_ConfidenceInUnitInterval ==
  ret.op \in {"combineResults", "MVOAlgorithm.Process"} /\ ret.err = ""
    => /\ ~FracLess(ret.out.Confidence, Frac(0, 1))
       /\ ~FracLess(Frac(1, 1), ret.out.Confidence)
\* C13 (as claimed): a result that MVO's Process or the combiner returns with
\* the order type limit carries a limit price, which is strictly positive.
C13_LimitHasPositivePrice ==
  ret.op \in {"combineResults", "MVOAlgorithm.Process"} /\ ret.err = ""
  /\ ret.out.OrderType = "limit"
    => ret.out.hasLimit /\ ret.out.LimitPrice.num > 0
\* C14 (as claimed): combining every result of a non-empty list twice gives
\* the same combined signal as combining the list.
C14_DuplicationKeepsSignal ==
  [][ret.op = "combineResults" /\ ret.err = ""
     /\ ret'.op = "combineResults" /\ ret'.err = ""
     /\ ret'.args = ret.args \o ret.args
       => ret'.out.Signal = ret.out.Signal]_vars
\* C15 (as claimed): the folds of PurgedKFold over n samples with k folds,
\* 2 <= k <= n, without embargo hold every index of [0, n) in the test
\* indices of exactly one fold.
C15_EachIndexInOneTestSet ==
  ret.op = "PurgedKFold" /\ ret.err = ""
  /\ ret.args[2] >= 2 /\ ret.args[2] <= Len(ret.args[1])
  /\ ret.args[3].num = 0
    => \A idx \in 0..(Len(ret.args[1]) - 1) :
         Cardinality({f \in DOMAIN ret.out :
                        idx \in Elems(ret.out[f].TestIndices)}) = 1
\* C16 (as claimed): with embargoPct > 0, no fold of PurgedKFold over n
\* samples keeps among its training indices an index t + 1, ..., or
\* t + ceil(n * embargoPct) for a test index t of the fold.
C16_EmbargoAfterTestIndices ==
  ret.op = "PurgedKFold" /\ ret.err = "" /\ ret.args[3].num > 0
    => \A f \in DOMAIN ret.out :
         \A j \in DOMAIN ret.out[f].TestIndices :
           \A i \in 1..CeilOf(Len(ret.args[1]), ret.args[3]) :
             ret.out[f].TestIndices[j] + i \notin Elems(ret.out[f].TrainIndices)
C18_InvalidFoldArgumentsRejected ==
  ret.op \in {"PurgedKFold", "WalkForwardValidation"}
  /\ \/ ret.args[2] < 2
     \/ FracLess(ret.args[3], Frac(0, 1))
     \/ FracLess(Frac(1, 2), ret.args[3])
    => ret.err # "" /\ ret.out = << >>
\* The prices of a series rise, or fall, from each one to the next.
C19_Rising(prices) ==
  \A k \in 1..(Len(prices) - 1) : prices[k] < prices[k + 1]
C19_Falling(prices) ==
  \A k \in 1..(Len(prices) - 1) : prices[k] > prices[k + 1]
\* C19 (as claimed): on a rising series an entry that exits at the upper
\* barrier has the label +1, on a falling series an entry that exits at the
\* lower barrier has the label -1, the entry at index 0 included.
C19_BarrierLabelFollowsSeries ==
  ret.op = "ApplyTripleBarrier" /\ ret.err = ""
    => \A n \in DOMAIN ret.out :
         /\ C19_Rising(ret.args[1]) /\ ret.out[n].BarrierHit = BarrierTypeUpper
              => ret.out[n].Label = BarrierLabelBuy
         /\ C19_Falling(ret.args[1]) /\ ret.out[n].BarrierHit = BarrierTypeLower
              => ret.out[n].Label = BarrierLabelSell
\* C20 (as claimed): every result of ApplyTripleBarrier exits no earlier than
\* it enters and names the barrier hit, upper, lower or time.
C20_ExitNotBeforeEntry ==
  ret.op = "ApplyTripleBarrier" /\ ret.err = ""
    => \A n \in DOMAIN ret.out :
         /\ ret.out[n].EntryTime <= ret.out[n].ExitTime
         /\ ret.out[n].BarrierHit
              \in {BarrierTypeUpper, BarrierTypeLower, BarrierTypeTime}

\* C22: SequentialBootstrap.Process returns a result and no error whenever the
\* instance is in a configuration Configure accepted (the registered default
\* included) and the history has at least lookback_period bars.
C22_AcceptedConfigurationProcesses ==
  (/\ ret.op = "Process"
   /\ ret.args[1] = AlgorithmTypeSequentialBootstrap
   /\ SequentialBootstrapConfigure(
        NewSequentialBootstrap,
        algorithms[AlgorithmTypeSequentialBootstrap].config).err = ""
   /\ Len(ret.args[2])
        >= algorithms[AlgorithmTypeSequentialBootstrap].lookbackPeriod)
    => ret.err = "" /\ ret.out[1] # NilResult

\* C25: a Configure or ConfigureAlgorithm call that returns a validation error
\* leaves the configuration in effect as it was: the fields of every
\* registered instance and the configurations the manager records are
\* unchanged by the call.
C25_RejectedConfigurationChangesNothing ==
  [][(/\ calls' = calls - 1
      /\ ret'.op \in {"Configure", "ConfigureAlgorithm"}
      /\ ret'.err # "")
       => algorithms' = algorithms /\ configs' = configs]_vars

\* C23: Configure resets the cached sums of a CUSUM filter: after a Configure
\* call spPrev and snPrev are zero, and the first Process call after a
\* Configure returns what a fresh instance configured with the same options
\* returns for the same input.
C23_ConfigureResetsCusum ==
  [][/\ (calls' = calls - 1 /\ ret'.op = "Configure")
          => /\ algorithms'[AlgorithmTypeCUSUMFilter].spPrev = Frac(0, 1)
             /\ algorithms'[AlgorithmTypeCUSUMFilter].snPrev = Frac(0, 1)
     /\ (calls' = calls - 1 /\ ret.op = "Configure" /\ ret'.op = "Process")
          => ret'.out[1]
               = CUSUMProcess(
                   CUSUMConfigure(NewCUSUMFilterAlgorithm,
                                  algorithms[AlgorithmTypeCUSUMFilter].config).alg,
                   ret'.args[3], ret'.args[2]).result]_vars

\* C24: when two consecutive Process calls on one CUSUM filter get the same
\* input and both return a buy or a sell, the standardized return z of that
\* input has |z| > drift + threshold, whatever calls came before.
C24_RepeatedSignalNeedsLargeReturn ==
  [][(/\ calls' = calls - 1
      /\ ret.op = "Process" /\ ret'.op = "Process"
      /\ ret.args = ret'.args
      /\ ret.err = "" /\ ret'.err = ""
      /\ ret.out[1].Signal \in {"buy", "sell"}
      /\ ret'.out[1].Signal \in {"buy", "sell"})
       => LET z == StandardizedReturn(ret'.args[2])
              c == algorithms[AlgorithmTypeCUSUMFilter]
          IN FloatGreater(IF z.num < 0 THEN FracNeg(z) ELSE z,
                          FracAdd(c.drift, c.threshold))]_vars

\* C26: with current data that is not nil and an empty history, Process of
\* HRP, MVO and Entropy Pooling returns normally: no error, no panic, and a
\* hold at confidence 0.5.
C26_EmptyHistoryHolds ==
  (/\ ret.op = "Process"
   /\ ret.args[1] \in PortfolioAlgorithms
   /\ ~ret.args[3]
   /\ Len(ret.args[2]) = 0)
    => /\ ret.err = ""
       /\ ret.out[1].Signal = SignalHold
       /\ ret.out[1].Confidence = Frac(1, 2)


\* C28 (as claimed): ExecuteTrade issues no order while trading is disabled,
\* before the first successful Start and after a Stop has returned: a call
\* that returns an order was in flight at a moment when trading was enabled
\* (ret.running of an ExecuteTrade result records exactly that).
C28_NoOrderWhileDisabled ==
  (ret.op = "ExecuteTrade" /\ ret.order.issued) => ret.running


\* C29 (as claimed): every order ExecuteTrade issues has a strictly positive
\* quantity: never zero shares (a price above the position notional) and
\* never negative shares (a short opened from a sell signal).
C29_OrderQuantityPositive ==
  (ret.op = "ExecuteTrade" /\ ret.order.issued) => ret.order.qty > 0


\* C30 (as claimed): when Start returns the error of a failed portfolio
\* refresh, marketData, signals and tradingEnabled are exactly what they were
\* when the call began: the data of a running session is not wiped and
\* trading is not left enabled on a new symbol set.
C30_FailedStartChangesNothing ==
  (ret.op = "Start" /\ ret.err = ErrPortfolio)
    => Session = ret.before


\* C27 (as claimed): when ProcessSymbol calls for a symbol overlap with
\* market-data updates, the stored signal is never replaced by one computed
\* from an older snapshot: while a signal stays stored for a symbol, the
\* write of the market data that the stored signal saw never goes back.
C27_StoredSignalNeverStaler ==
  [][\A s \in Symbols :
       Has(signals, s) /\ Has(signals', s)
         => stamp'.stored[s] >= stamp.stored[s]]_vars

====
